---- MODULE Spec2Model ----
(***************************************************************************)
(* A model of the disastle rules engine: the Castle subsystem              *)
(* (src/src/castle), and the GamePlay state machine (src/src/game/mod.rs). *)
(*                                                                         *)
(* Spec      the operations of one Castle, applied to Castle::new(throne)  *)
(* GameSpec  the operations of one GamePlay produced by start_game         *)
(***************************************************************************)
EXTENDS Integers, Sequences, FiniteSets, TLC

(***************************************************************************)
(* Bounds of the model.                                                    *)
(***************************************************************************)
\* the largest number of rooms (throne included) a Place step may build up to
MaxRooms == 3

\* the lattice positions callers pass to the castle operations: the throne's
\* cell, three cells around it and one far-away cell
Positions == {<<0, 0>>, <<1, 0>>, <<2, 0>>, <<0, 1>>, <<5, 5>>}

(***************************************************************************)
(* Connection (castle/room/connection.rs)                                  *)
(***************************************************************************)
ConnNone == [kind |-> "None", gold |-> FALSE]
ConnAny == [kind |-> "Any", gold |-> FALSE]
Diamond(gold) == [kind |-> "Diamond", gold |-> gold]
Cross(gold) == [kind |-> "Cross", gold |-> gold]
Moon(gold) == [kind |-> "Moon", gold |-> gold]

Emblems == {"Diamond", "Cross", "Moon"}

\* connect that lets an open side of self meet a wall
connect_open_to_wall(self, other) ==
    \/ other.kind = "None"
    \/ self.kind # "None"

\* Connection::connect
connect(self, other) ==
    \/ (self.kind = "None" /\ other.kind = "None")
    \/ (self.kind # "None" /\ other.kind # "None")

\* link that asks two emblems for the same gold
link_same_gold(self, other) ==
    CASE self.kind = "Any" /\ other.kind = "Any" -> "Any"
      [] self.kind = "Any" /\ other.kind \in Emblems -> other.kind
      [] self.kind \in Emblems /\ other.kind = "Any" -> self.kind
      [] self.kind \in Emblems /\ other = self -> self.kind
      [] OTHER -> "NoLink"

\* Connection::link; "NoLink" stands for Option::None
link(self, other) ==
    CASE self.kind = "Any" /\ other.kind = "Any" -> "Any"
      [] self.kind = "Any" /\ other.kind \in Emblems -> other.kind
      [] self.kind \in Emblems /\ other.kind = "Any" -> self.kind
      [] self.kind \in Emblems /\ other.kind = self.kind -> self.kind
      [] OTHER -> "NoLink"

\* Connection::powered; "NoPower" stands for Option::None, "Powered" for
\* Some(true) and "Unpowered" for Some(false)
powered(self, other) ==
    CASE self.kind \in Emblems /\ self.gold ->
             IF other.kind = self.kind THEN "Powered" ELSE "Unpowered"
      [] OTHER -> "NoPower"

(***************************************************************************)
(* Room (castle/room/mod.rs)                                               *)
(***************************************************************************)
throne_room(id, name) ==
    [id |-> id, name |-> name,
     up |-> ConnAny, right |-> ConnAny, down |-> ConnAny, left |-> ConnAny]

\* Room::rotate_right(mut self): the room is taken by value, its sides are
\* shifted in the callee's own copy, and the call returns (): the shifted
\* room is dropped at the end of the call
rotate_right(self) ==
    [returns |-> "Unit",
     dropped |-> [self EXCEPT !.up = self.left, !.right = self.up,
                              !.down = self.right, !.left = self.down]]

\* Room::rotate_left(mut self), likewise
rotate_left(self) ==
    [returns |-> "Unit",
     dropped |-> [self EXCEPT !.up = self.right, !.right = self.down,
                              !.down = self.left, !.left = self.up]]

ThroneRoom == throne_room(0, "Throne Room")

\* the rooms callers hand to place: a vertical piece with walls left and
\* right, a horizontal piece with a gold side, and a four-way piece
RoomCatalogue ==
    { [id |-> 1, name |-> "Gallery",
       up |-> Diamond(FALSE), right |-> ConnNone, down |-> ConnAny, left |-> ConnNone],
      [id |-> 2, name |-> "Vault",
       up |-> ConnNone, right |-> Diamond(TRUE), down |-> ConnNone, left |-> ConnAny],
      [id |-> 3, name |-> "Chapel",
       up |-> Cross(FALSE), right |-> ConnAny, down |-> Moon(TRUE), left |-> Diamond(FALSE)] }

Up(pos) == <<pos[1], pos[2] + 1>>
Right(pos) == <<pos[1] + 1, pos[2]>>
Down(pos) == <<pos[1], pos[2] - 1>>
Left(pos) == <<pos[1] - 1, pos[2]>>

\* Room::connecting: the cells opposite the non-wall sides
connecting(room, pos) ==
    (IF room.up.kind # "None" THEN {Up(pos)} ELSE {})
    \cup (IF room.right.kind # "None" THEN {Right(pos)} ELSE {})
    \cup (IF room.down.kind # "None" THEN {Down(pos)} ELSE {})
    \cup (IF room.left.kind # "None" THEN {Left(pos)} ELSE {})

\* Room::up_link .. left_link: self is not used, both sides are the
\* argument's own
up_link(self, room) == link(room.up, room.down)
right_link(self, room) == link(room.right, room.left)
down_link(self, room) == link(room.down, room.up)
left_link(self, room) == link(room.left, room.right)

\* Room::up_powered
up_powered(self, room) == powered(room.up, room.down)

(***************************************************************************)
(* The undirected graph of the castle (petgraph::Graph<Pos, u8>): the node *)
(* vector, in index order, and the edges as pairs of node weights.  Node   *)
(* weights are unique, so an edge is named by the two positions it joins.  *)
(* Indices are 1-based here; 0 stands for "no such node".                  *)
(***************************************************************************)
\* Graph::new_undirected
new_undirected == [nodes |-> <<>>, edges |-> {}]

\* Graph::add_node: the new node takes the last index
add_node(g, pos) == [g EXCEPT !.nodes = Append(g.nodes, pos)]

\* Graph::remove_node: the edges of the node go, and the last node is
\* swapped into the freed index (Vec::swap_remove); an index that is out of
\* range removes nothing
remove_node(g, idx) ==
    IF idx < 1 \/ idx > Len(g.nodes) THEN g
    ELSE LET n == Len(g.nodes)
             w == g.nodes[idx]
         IN [nodes |-> [i \in 1..(n - 1) |-> IF i = idx THEN g.nodes[n] ELSE g.nodes[i]],
             edges |-> {e \in g.edges : w \notin e}]

\* Graph::neighbors: the weights of the nodes adjacent to the node at idx,
\* nothing for an index that is out of range
neighbors(g, idx) ==
    IF idx < 1 \/ idx > Len(g.nodes) THEN {}
    ELSE {q \in UNION g.edges : q # g.nodes[idx] /\ {g.nodes[idx], q} \in g.edges}

\* node_indices().find_map(weight == pos): the first index holding pos
find_node(g, pos) ==
    IF \E i \in 1..Len(g.nodes) : g.nodes[i] = pos
    THEN CHOOSE i \in 1..Len(g.nodes) :
             /\ g.nodes[i] = pos
             /\ \A j \in 1..(i - 1) : g.nodes[j] # pos
    ELSE 0

\* the positions joined to a position of S by a path of edges
RECURSIVE Reach(_, _)
Reach(edges, S) ==
    LET T == S \cup {q \in UNION edges : \E e \in edges : q \in e /\ e \cap S # {}}
    IN IF T = S THEN S ELSE Reach(edges, T)

\* algo::astar with unit edge costs: Some(path) iff goal is reachable
astar(g, start, goal) == goal \in Reach(g.edges, {start})

(***************************************************************************)
(* Castle (castle/mod.rs)                                                  *)
(***************************************************************************)
RemoveKey(f, k) == [p \in DOMAIN f \ {k} |-> f[p]]
InsertKey(f, k, v) == [p \in DOMAIN f \cup {k} |-> IF p = k THEN v ELSE f[p]]

\* Castle::new
new(throne) ==
    [rooms |-> [p \in {<<0, 0>>} |-> throne],
     throne_rooms |-> <<<<0, 0>>>>,
     connections |-> new_undirected]

num_rooms(self) == Cardinality(DOMAIN self.rooms)

\* Castle::free_pos
free_pos(self) ==
    UNION {connecting(self.rooms[p], p) \ DOMAIN self.rooms : p \in DOMAIN self.rooms}

\* Castle::find_node_pos
find_node_pos(self, pos) == find_node(self.connections, pos)

\* Castle::place_valid
place_valid(self, room, pos) ==
    LET occ(p) == p \in DOMAIN self.rooms
    IN /\ (~occ(Up(pos)) \/ connect(self.rooms[Up(pos)].down, room.up))
       /\ (~occ(Right(pos)) \/ connect(self.rooms[Right(pos)].left, room.right))
       /\ (~occ(Down(pos)) \/ connect(self.rooms[Down(pos)].up, room.down))
       /\ (~occ(Left(pos)) \/ connect(self.rooms[Left(pos)].right, room.left))

\* Castle::remove_valid as the author meant it: the neighbours are those of
\* the node being removed
remove_valid_neighbours_first(self, pos) ==
    LET g == self.connections
        remove_index == find_node(g, pos)
        nbrs == neighbors(g, remove_index)
        test == remove_node(g, remove_index)
        thrones == {self.throne_rooms[i] : i \in 1..Len(self.throne_rooms)}
    IN /\ remove_index # 0
       /\ \A n \in nbrs :
              \E t \in thrones : find_node(test, t) # 0 /\ astar(test, t, n)

\* Castle::remove_valid: the node is removed from the clone first, and the
\* neighbours are then read at the removed index, which now holds the node
\* swapped in from the end (or nothing)
remove_valid(self, pos) ==
    LET g == self.connections
        remove_index == find_node(g, pos)
        test == remove_node(g, remove_index)
        thrones == {self.throne_rooms[i] : i \in 1..Len(self.throne_rooms)}
    IN /\ remove_index # 0
       /\ \A n \in neighbors(test, remove_index) :
              \E t \in thrones : find_node(test, t) # 0 /\ astar(test, t, n)

\* Castle::move_outer_valid
move_outer_valid(self, pos_from, pos_to) ==
    /\ pos_from \in DOMAIN self.rooms
    /\ Cardinality(connecting(self.rooms[pos_from], pos_from) \cap DOMAIN self.rooms) = 1
    /\ remove_valid(self, pos_from)
    /\ pos_to \notin DOMAIN self.rooms
    /\ place_valid(self, self.rooms[pos_from], pos_from)

\* Castle::swap_valid
swap_valid(self, pos_1, pos_2) ==
    /\ pos_1 # pos_2
    /\ pos_1 \in DOMAIN self.rooms
    /\ pos_2 \in DOMAIN self.rooms
    /\ place_valid(self, self.rooms[pos_1], pos_2)
    /\ place_valid(self, self.rooms[pos_2], pos_1)

\* Castle::place with the node added before the test: a refused place leaves
\* a node of the graph behind
place_node_first(self, room, pos) ==
    LET g == self.connections
        g1 == add_node(g, pos)
    IN IF pos \notin DOMAIN self.rooms /\ place_valid(self, room, pos)
       THEN LET connected_pos == connecting(room, pos) \cap DOMAIN self.rooms
                connected == {g.nodes[i] : i \in {j \in 1..Len(g.nodes) : g.nodes[j] \in connected_pos}}
            IN [castle |-> [self EXCEPT
                               !.connections = [g1 EXCEPT !.edges = g1.edges \cup {{pos, q} : q \in connected}],
                               !.rooms = InsertKey(self.rooms, pos, room)],
                result |-> "Ok"]
       ELSE [castle |-> [self EXCEPT !.connections = g1], result |-> "InvalidPlace"]

\* Castle::place: a node for pos, and an edge (Graph::add_edge) to every node
\* whose position is occupied and lies opposite a non-wall side of the room
place(self, room, pos) ==
    IF pos \notin DOMAIN self.rooms /\ place_valid(self, room, pos)
    THEN LET g == self.connections
             connected_pos == connecting(room, pos) \cap DOMAIN self.rooms
             connected == {g.nodes[i] : i \in {j \in 1..Len(g.nodes) : g.nodes[j] \in connected_pos}}
             g1 == add_node(g, pos)
         IN [castle |-> [self EXCEPT
                            !.connections = [g1 EXCEPT !.edges = g1.edges \cup {{pos, q} : q \in connected}],
                            !.rooms = InsertKey(self.rooms, pos, room)],
             result |-> "Ok"]
    ELSE [castle |-> self, result |-> "InvalidPlace"]

\* Castle::remove
remove(self, pos) ==
    IF remove_valid(self, pos)
    THEN IF pos \in DOMAIN self.rooms
         THEN [castle |-> [self EXCEPT
                              !.rooms = RemoveKey(self.rooms, pos),
                              !.connections = remove_node(self.connections, find_node_pos(self, pos))],
               result |-> "Ok"]
         ELSE [castle |-> self, result |-> "Panic"]
    ELSE [castle |-> self, result |-> "InvalidRemove"]

\* Castle::move_outer.  "Panic" is the abort of expect(..) and unreachable!(),
\* with the castle as the aborted call left it
move_outer(self, pos_from, pos_to) ==
    IF ~move_outer_valid(self, pos_from, pos_to)
    THEN IF pos_from \in DOMAIN self.rooms
         THEN LET room == self.rooms[pos_from]
                  c1 == [self EXCEPT !.rooms = RemoveKey(self.rooms, pos_from)]
                  idx == find_node_pos(c1, pos_from)
              IN IF idx = 0
                 THEN [castle |-> c1, result |-> "Panic"]
                 ELSE LET c2 == [c1 EXCEPT !.connections = remove_node(c1.connections, idx)]
                          placed == place(c2, room, pos_to)
                      IN IF placed.result = "Ok"
                         THEN placed
                         ELSE [castle |-> placed.castle, result |-> "Panic"]
         ELSE [castle |-> self, result |-> "Panic"]
    ELSE [castle |-> self, result |-> "InvalidMove"]

\* Castle::swap.  "Panic" is the abort of unwrap() on a missing room
swap(self, pos_1, pos_2) ==
    IF ~swap_valid(self, pos_1, pos_2)
    THEN IF pos_1 \notin DOMAIN self.rooms
         THEN [castle |-> self, result |-> "Panic"]
         ELSE LET room_1 == self.rooms[pos_1]
                  r1 == RemoveKey(self.rooms, pos_1)
              IN IF pos_2 \notin DOMAIN r1
                 THEN [castle |-> [self EXCEPT !.rooms = r1], result |-> "Panic"]
                 ELSE LET room_2 == r1[pos_2]
                          r2 == RemoveKey(r1, pos_2)
                      IN [castle |-> [self EXCEPT
                                         !.rooms = InsertKey(InsertKey(r2, pos_1, room_2), pos_2, room_1)],
                          result |-> "Ok"]
    ELSE [castle |-> self, result |-> "InvalidSwap"]

\* Castle::is_powered: every present neighbour is asked through up_powered
is_powered(self, pos) ==
    IF pos \in DOMAIN self.rooms
    THEN LET room == self.rooms[pos]
             side(p) == IF p \in DOMAIN self.rooms
                        THEN up_powered(room, self.rooms[p]) # "Unpowered"
                        ELSE TRUE
         IN [result |-> "Ok",
             value |-> side(Up(pos)) /\ side(Right(pos)) /\ side(Down(pos)) /\ side(Left(pos))]
    ELSE [result |-> "InvalidPos", value |-> FALSE]

\* Castle::links
links(self) ==
    LET rooms == self.rooms
        hits(kind) ==
            Cardinality({p \in DOMAIN rooms :
                            Up(p) \in DOMAIN rooms /\ up_link(rooms[p], rooms[Up(p)]) = kind})
            + Cardinality({p \in DOMAIN rooms :
                            Right(p) \in DOMAIN rooms /\ right_link(rooms[p], rooms[Right(p)]) = kind})
            + Cardinality({p \in DOMAIN rooms :
                            Down(p) \in DOMAIN rooms /\ down_link(rooms[p], rooms[Down(p)]) = kind})
            + Cardinality({p \in DOMAIN rooms :
                            Left(p) \in DOMAIN rooms /\ left_link(rooms[p], rooms[Left(p)]) = kind})
    IN <<hits("Any") \div 2, hits("Diamond") \div 2, hits("Cross") \div 2, hits("Moon") \div 2>>

(***************************************************************************)
(* Disaster                                                                *)
(***************************************************************************)
\* SimpleDisaster::new
SimpleDisaster(name, diamond_m, diamond_a, cross_m, cross_a, moon_m, moon_a) ==
    [name |-> name,
     diamond |-> [multiplier |-> diamond_m, addition |-> diamond_a],
     cross |-> [multiplier |-> cross_m, addition |-> cross_a],
     moon |-> [multiplier |-> moon_m, addition |-> moon_a]]

Max(a, b) == IF a >= b THEN a ELSE b

\* Disaster::damage(num_previous_disasters, links), which GamePlay calls: the
\* damage left of each category after the castle's links of that category,
\* less the wild links, floored at 0.  links is (any, diamond, cross, moon)
damage(disaster, num_previous_disasters, castle_links) ==
    LET d == num_previous_disasters * disaster.diamond.multiplier + disaster.diamond.addition
        c == num_previous_disasters * disaster.cross.multiplier + disaster.cross.addition
        m == num_previous_disasters * disaster.moon.multiplier + disaster.moon.addition
    IN Max(0, Max(0, d - castle_links[2]) + Max(0, c - castle_links[3])
                + Max(0, m - castle_links[4]) - castle_links[1])

(***************************************************************************)
(* The lobby the game is started from (GameLobby): two players, the rooms  *)
(* of the catalogue, two disasters, none locked.                           *)
(***************************************************************************)
NumSafe == 2
NumShop == 2
NumDisasters == 2

Secrets == {1, 2}
\* the secrets of no player that callers pass
Strangers == {9}

LobbyRooms == RoomCatalogue
LobbyDisasters ==
    { SimpleDisaster("Drought", 1, 0, 0, 0, 0, 0),
      SimpleDisaster("Siege", 0, 1, 1, 0, 0, 1) }

\* the positions callers pass to the game's operations
GamePositions == {<<0, 0>>, <<1, 0>>, <<0, 1>>}

RoomCard(room) == [card |-> "Room", room |-> room]
DisasterCard(disaster) == [card |-> "Disaster", disaster |-> disaster]

\* slice::shuffle: every order of the sequence
Shuffles(seq) ==
    {[i \in 1..Len(seq) |-> seq[perm[i]]] : perm \in Permutations(1..Len(seq))}

\* every order of a set
Orders(S) ==
    {seq \in [1..Cardinality(S) -> S] : \A i, j \in 1..Cardinality(S) : i # j => seq[i] # seq[j]}

\* rooms and disasters turned into cards, in order
RoomCards(rooms) == [i \in 1..Len(rooms) |-> RoomCard(rooms[i])]
DisasterCards(disasters) == [i \in 1..Len(disasters) |-> DisasterCard(disasters[i])]

(***************************************************************************)
(* PlayerState (game/player/mod.rs)                                        *)
(***************************************************************************)
Wait(name, c) == [state |-> "Wait", name |-> name, castle |-> c]
Dead(name) == [state |-> "Dead", name |-> name]
Action(name, c) == [state |-> "Action", name |-> name, castle |-> c, limbo |-> <<>>]
Disaster(name, c, disasters, dmg, num_previous_disasters, remove_queue) ==
    [state |-> "Disaster", name |-> name, castle |-> c, disasters |-> disasters,
     damage |-> dmg, num_previous_disasters |-> num_previous_disasters,
     remove_queue |-> remove_queue]

(***************************************************************************)
(* TurnIterator (game/mod.rs); turn_index is 0-based as in the source      *)
(***************************************************************************)
\* FromIterator for TurnIterator
from_iter(queue) == [turn_index |-> 0, turn_queue |-> queue]

is_new_round(turn) == turn.turn_index = 0

\* pop_front then push_back, when the queue has a front
RotateFront(queue) ==
    IF Len(queue) = 0 THEN queue ELSE Append(Tail(queue), Head(queue))

RemoveAt(seq, i) == [j \in 1..(Len(seq) - 1) |-> IF j < i THEN seq[j] ELSE seq[j + 1]]

\* TurnIterator::remove_item
remove_item(turn, item) ==
    IF \E i \in 1..Len(turn.turn_queue) : turn.turn_queue[i] = item
    THEN LET remove_index ==
                 (CHOOSE i \in 1..Len(turn.turn_queue) :
                      /\ turn.turn_queue[i] = item
                      /\ \A j \in 1..(i - 1) : turn.turn_queue[j] # item) - 1
             index == IF remove_index < turn.turn_index
                      THEN turn.turn_index - 1 ELSE turn.turn_index
             queue == RemoveAt(turn.turn_queue, remove_index + 1)
         IN IF index >= Len(queue)
            THEN [turn_index |-> 0, turn_queue |-> RotateFront(queue)]
            ELSE [turn_index |-> index, turn_queue |-> queue]
    ELSE turn

\* TurnIterator::next: the item, and the iterator after it; indexing an
\* empty queue aborts
next(turn) ==
    IF turn.turn_index >= Len(turn.turn_queue)
    THEN [result |-> "Panic", item |-> 0, turn |-> turn]
    ELSE LET index == turn.turn_index + 1
         IN [result |-> "Ok",
             item |-> turn.turn_queue[turn.turn_index + 1],
             turn |-> IF index >= Len(turn.turn_queue)
                      THEN [turn_index |-> 0, turn_queue |-> RotateFront(turn.turn_queue)]
                      ELSE [turn EXCEPT !.turn_index = index]]

(***************************************************************************)
(* GameLobby::start_game and GamePlay (game/mod.rs)                        *)
(***************************************************************************)
\* the disasters no caller has locked
LobbyLocked == <<>>

\* the disaster cards start_game puts in the deck: each round of the loop
\* pops a locked disaster or, when none is left, a shuffled one
RECURSIVE PickDisasters(_, _, _)
PickDisasters(locked_disasters, disasters, rounds) ==
    IF rounds = 0 THEN <<>>
    ELSE IF Len(locked_disasters) > 0
    THEN <<DisasterCard(locked_disasters[Len(locked_disasters)])>>
         \o PickDisasters(SubSeq(locked_disasters, 1, Len(locked_disasters) - 1),
                          disasters, rounds - 1)
    ELSE IF Len(disasters) > 0
    THEN (IF \E i \in 1..Len(locked_disasters) :
                 locked_disasters[i].name = disasters[Len(disasters)].name
          THEN <<>>
          ELSE <<DisasterCard(disasters[Len(disasters)])>>)
         \o PickDisasters(locked_disasters,
                          SubSeq(disasters, 1, Len(disasters) - 1), rounds - 1)
    ELSE <<>>

\* GameLobby::start_game: every GamePlay it can return, over the shuffles of
\* the rooms, the disasters, the deck and the turn queue.  split_off(num_safe)
\* keeps the first num_safe rooms for the shuffled part and puts the others
\* on top
start_game ==
    { [turn |-> from_iter(turn_queue),
       players |-> [secret \in Secrets |-> Wait("player", new(throne_room(0, "Throne Room")))],
       deck |-> deck \o RoomCards(SubSeq(rooms, NumSafe + 1, Len(rooms))),
       dealt_shop |-> FALSE,
       shop |-> <<>>,
       discard |-> <<>>,
       previous_disasters |-> <<>>] :
        <<rooms, deck, turn_queue>> \in
            UNION { UNION { { <<rooms, deck, turn_queue>> :
                                deck \in Shuffles(RoomCards(SubSeq(rooms, 1, NumSafe))
                                                  \o PickDisasters(LobbyLocked, disasters, NumDisasters)),
                                turn_queue \in Orders(Secrets) } :
                            disasters \in Orders(LobbyDisasters) } :
                    rooms \in Orders(LobbyRooms) } }

\* the shop deal of update_game_states: every outcome of the loop, over the
\* shuffles of the mulligan; over is TRUE when the deck ran out
RECURSIVE Deal(_, _, _, _)
Deal(deck, shop, current_disasters, mulliganed) ==
    IF Len(shop) >= NumShop
    THEN {[deck |-> deck, shop |-> shop, current_disasters |-> current_disasters, over |-> FALSE]}
    ELSE IF Len(deck) = 0
    THEN {[deck |-> deck, shop |-> shop, current_disasters |-> current_disasters, over |-> TRUE]}
    ELSE LET card == deck[Len(deck)]
             rest == SubSeq(deck, 1, Len(deck) - 1)
         IN IF card.card = "Room"
            THEN Deal(rest, Append(shop, card.room), current_disasters, mulliganed)
            ELSE IF Len(current_disasters) > 0 /\ ~mulliganed
            THEN UNION { Deal(shuffled, shop, current_disasters, TRUE) :
                           shuffled \in Shuffles(rest \o RoomCards(shop)
                                                 \o DisasterCards(current_disasters)) }
            ELSE Deal(rest, shop, Append(current_disasters, card.disaster), mulliganed)

\* the loop over the players after a deal that drew a disaster, in the
\* order the map yields them
RECURSIVE Strike(_, _, _, _, _)
Strike(order, players, turn, current_disasters, previous_disasters) ==
    IF Len(order) = 0 THEN [result |-> "Ok", players |-> players, turn |-> turn]
    ELSE LET secret == Head(order)
             player == players[secret]
         IN IF player.state = "Wait"
            THEN LET dmg == damage(current_disasters[Len(current_disasters)],
                                   Len(previous_disasters), links(player.castle))
                 IN IF dmg >= num_rooms(player.castle)
                    THEN Strike(Tail(order),
                                [players EXCEPT ![secret] = Dead(player.name)],
                                remove_item(turn, secret),
                                current_disasters, previous_disasters)
                    ELSE Strike(Tail(order),
                                [players EXCEPT ![secret] =
                                    Disaster(player.name, player.castle, current_disasters,
                                             dmg, Len(previous_disasters), <<>>)],
                                turn, current_disasters, previous_disasters)
            ELSE IF player.state = "Dead"
            THEN Strike(Tail(order), players, turn, current_disasters, previous_disasters)
            ELSE [result |-> "Panic", players |-> players, turn |-> turn]

\* the turn player is put into the Action state
StartTurn(game) ==
    LET n == next(game.turn)
    IN IF n.result = "Panic"
       THEN [game |-> game, result |-> "Panic"]
       ELSE IF n.item \notin DOMAIN game.players
       THEN [game |-> [game EXCEPT !.turn = n.turn], result |-> "Panic"]
       ELSE IF game.players[n.item].state # "Wait"
       THEN [game |-> [game EXCEPT !.turn = n.turn], result |-> "Panic"]
       ELSE [game |-> [game EXCEPT
                          !.turn = n.turn,
                          !.players[n.item] = Action(@.name, @.castle),
                          !.dealt_shop = FALSE],
             result |-> "Ok"]

\* update_game_states, the body of its test that all players wait: every
\* outcome; result "End" is Ok(Some(GameEnd))
Updated(game) ==
    IF is_new_round(game.turn) /\ ~game.dealt_shop
    THEN UNION {
           IF dealt.over
           THEN {[game |-> [game EXCEPT !.discard = game.discard \o game.shop,
                                        !.shop = dealt.shop,
                                        !.deck = dealt.deck],
                  result |-> "End"]}
           ELSE LET g1 == [game EXCEPT !.discard = game.discard \o game.shop,
                                       !.shop = dealt.shop,
                                       !.deck = dealt.deck,
                                       !.dealt_shop = TRUE]
                IN IF Len(dealt.current_disasters) > 0
                   THEN { LET struck == Strike(order, g1.players, g1.turn,
                                               dealt.current_disasters, g1.previous_disasters)
                          IN [game |-> [g1 EXCEPT !.players = struck.players,
                                                  !.turn = struck.turn],
                              result |-> struck.result] :
                          order \in Orders(DOMAIN game.players) }
                   ELSE {StartTurn(g1)} :
           dealt \in Deal(game.deck, <<>>, <<>>, FALSE) }
    ELSE {StartTurn(game)}

\* update_game_states without the test that all players wait
update_game_states_unguarded(game) == Updated(game)

\* GamePlay::update_game_states: every outcome
update_game_states(game) ==
    IF \A secret \in DOMAIN game.players : game.players[secret].state = "Wait"
    THEN Updated(game)
    ELSE {[game |-> game, result |-> "Ok"]}

GameResult(game, result, cause) == [game |-> game, result |-> result, cause |-> cause]

\* the result of a castle call inside a game call: Ok(castle..?), the
\* error wrapped by From<CastleError>, or the abort
Wrapped(game, secret, out) ==
    GameResult([game EXCEPT !.players[secret].castle = out.castle],
               IF out.result \in {"Ok", "Panic"} THEN out.result ELSE "CastleError",
               IF out.result \in {"Ok", "Panic"} THEN "" ELSE out.result)

\* GamePlay::move_outer
game_move_outer(game, secret, pos_from, pos_to) ==
    IF secret \in DOMAIN game.players
    THEN IF game.players[secret].state = "Action"
         THEN Wrapped(game, secret, move_outer(game.players[secret].castle, pos_from, pos_to))
         ELSE GameResult(game, "InvalidAction", "")
    ELSE GameResult(game, "InvalidPlayer", "")

\* GamePlay::place; shop_index is 0-based.  The room leaves the shop before
\* the castle is asked
game_place(game, secret, shop_index, pos) ==
    IF shop_index < Len(game.shop)
    THEN IF secret \in DOMAIN game.players
         THEN IF game.players[secret].state = "Action"
              THEN Wrapped([game EXCEPT !.shop = RemoveAt(game.shop, shop_index + 1)],
                           secret,
                           place(game.players[secret].castle, game.shop[shop_index + 1], pos))
              ELSE GameResult(game, "InvalidAction", "")
         ELSE GameResult(game, "InvalidPlayer", "")
    ELSE GameResult(game, "InvalidShopIndex", "")

\* GamePlay::swap
game_swap(game, secret, pos_from, pos_to) ==
    IF secret \in DOMAIN game.players
    THEN IF game.players[secret].state = "Action"
         THEN Wrapped(game, secret, swap(game.players[secret].castle, pos_from, pos_to))
         ELSE GameResult(game, "InvalidAction", "")
    ELSE GameResult(game, "InvalidPlayer", "")

\* the castle after remove of each queued position in turn, and whether
\* every remove returned Ok
RECURSIVE RemoveAll(_, _)
RemoveAll(c, queue) ==
    IF Len(queue) = 0 THEN [castle |-> c, ok |-> TRUE]
    ELSE LET out == remove(c, Head(queue))
             more == RemoveAll(out.castle, Tail(queue))
         IN [castle |-> more.castle, ok |-> out.result = "Ok" /\ more.ok]

\* GamePlay::remove
game_remove(game, secret, pos) ==
    IF secret \in DOMAIN game.players
    THEN IF game.players[secret].state = "Disaster"
         THEN LET player == game.players[secret]
                  tested == RemoveAll(player.castle, player.remove_queue)
              IN IF ~tested.ok
                 THEN GameResult(game, "Panic", "")
                 ELSE LET remove_ok == remove(tested.castle, pos).result = "Ok"
                          queue == IF remove_ok THEN Append(player.remove_queue, pos)
                                   ELSE player.remove_queue
                          queued == [game EXCEPT !.players[secret].remove_queue = queue]
                      IN IF Len(queue) = player.damage
                         THEN LET removed == RemoveAll(player.castle, queue)
                                  disasters == SubSeq(player.disasters, 1, Len(player.disasters) - 1)
                                  num_previous_disasters == player.num_previous_disasters + 1
                              IN IF ~removed.ok
                                 THEN GameResult([queued EXCEPT !.players[secret].castle = removed.castle],
                                                 "Panic", "")
                                 ELSE IF Len(disasters) = 0
                                 THEN GameResult([game EXCEPT !.players[secret] =
                                                     Wait(player.name, removed.castle)], "Ok", "")
                                 ELSE GameResult(
                                        [game EXCEPT !.players[secret] =
                                            Disaster(player.name, removed.castle, disasters,
                                                     damage(disasters[Len(disasters)],
                                                            num_previous_disasters,
                                                            links(removed.castle)),
                                                     num_previous_disasters, queue)],
                                        "Ok", "")
                         ELSE IF Len(queue) > player.damage
                         THEN GameResult(queued, "Panic", "")
                         ELSE GameResult(queued, "Ok", "")
         ELSE GameResult(game, "InvalidAction", "")
    ELSE GameResult(game, "InvalidPlayer", "")

(***************************************************************************)
(* What the specification says of the castle, for the properties below:    *)
(* the connectivity graph it describes, and the facing sides of two cells. *)
(***************************************************************************)
Thrones(c) == {c.throne_rooms[i] : i \in 1..Len(c.throne_rooms)}

\* the edges between adjacent occupied cells whose facing sides are both
\* not walls
FacingEdges(rooms) ==
    {{p, Up(p)} : p \in {q \in DOMAIN rooms :
        Up(q) \in DOMAIN rooms /\ rooms[q].up.kind # "None" /\ rooms[Up(q)].down.kind # "None"}}
    \cup
    {{p, Right(p)} : p \in {q \in DOMAIN rooms :
        Right(q) \in DOMAIN rooms /\ rooms[q].right.kind # "None"
        /\ rooms[Right(q)].left.kind # "None"}}

\* every room has a path to an occupied throne position
Connected(rooms, thrones) ==
    \A p \in DOMAIN rooms :
        \E t \in thrones \cap DOMAIN rooms : p \in Reach(FacingEdges(rooms), {t})

\* the castle is connected, and some room that stays has no path to an
\* occupied throne position once the room at pos is gone
Orphans(c, pos) ==
    /\ Connected(c.rooms, Thrones(c))
    /\ pos \in DOMAIN c.rooms
    /\ ~Connected(RemoveKey(c.rooms, pos), Thrones(c))

\* the links of the pairs of adjacent occupied cells, by the kind of their
\* two facing sides, each pair once
FacingLinks(c) ==
    LET rooms == c.rooms
        pairs(kind) ==
            Cardinality({p \in DOMAIN rooms :
                            Up(p) \in DOMAIN rooms /\ link(rooms[p].up, rooms[Up(p)].down) = kind})
            + Cardinality({p \in DOMAIN rooms :
                            Right(p) \in DOMAIN rooms
                            /\ link(rooms[p].right, rooms[Right(p)].left) = kind})
    IN <<pairs("Any"), pairs("Diamond"), pairs("Cross"), pairs("Moon")>>

\* every gold side of the room at pos faces an occupied cell whose facing
\* side has the same emblem
FacingPowered(c, pos) ==
    LET rooms == c.rooms
        side(own, p, facing) ==
            (own.kind \in Emblems /\ own.gold) =>
                (p \in DOMAIN rooms /\ facing.kind = own.kind)
    IN /\ side(rooms[pos].up, Up(pos),
               IF Up(pos) \in DOMAIN rooms THEN rooms[Up(pos)].down ELSE ConnNone)
       /\ side(rooms[pos].right, Right(pos),
               IF Right(pos) \in DOMAIN rooms THEN rooms[Right(pos)].left ELSE ConnNone)
       /\ side(rooms[pos].down, Down(pos),
               IF Down(pos) \in DOMAIN rooms THEN rooms[Down(pos)].up ELSE ConnNone)
       /\ side(rooms[pos].left, Left(pos),
               IF Left(pos) \in DOMAIN rooms THEN rooms[Left(pos)].right ELSE ConnNone)

(***************************************************************************)
(* The Castle that SchrodingerGameState holds (crate disastle_castle_rust, *)
(* whose code is not part of this repository): rooms, throne positions and *)
(* the damage it owes, with the operations as the specification describes  *)
(* them.                                                                   *)
(***************************************************************************)
\* Castle::new: the throne at (0,0), no damage
new_castle(throne) ==
    [rooms |-> [p \in {<<0, 0>>} |-> throne],
     throne_rooms |-> <<<<0, 0>>>>,
     damage |-> 0]

\* place: pos is empty, every occupied neighbour is compatible, and pos is a
\* free position of the castle
place_room(self, room, pos) ==
    IF /\ pos \notin DOMAIN self.rooms
       /\ place_valid(self, room, pos)
       /\ pos \in free_pos(self)
    THEN [castle |-> [self EXCEPT !.rooms = InsertKey(self.rooms, pos, room)], result |-> "Ok"]
    ELSE [castle |-> self, result |-> "InvalidPlace"]

\* remove: pos is occupied and every room that stays keeps a path to an
\* occupied throne position
remove_room(self, pos) ==
    IF /\ pos \in DOMAIN self.rooms
       /\ Connected(RemoveKey(self.rooms, pos), Thrones(self))
    THEN [castle |-> [self EXCEPT !.rooms = RemoveKey(self.rooms, pos)], result |-> "Ok"]
    ELSE [castle |-> self, result |-> "InvalidRemove"]

\* move, once the room is known to be removable: it is placed at pos_to in
\* the castle without it
MoveRemoved(self, placed) ==
    IF placed.result = "Ok" THEN placed ELSE [castle |-> self, result |-> "InvalidMove"]

\* move: the room at pos_from has exactly one occupied neighbour, can be
\* removed, and can be placed at the empty pos_to once it is removed
move_room(self, pos_from, pos_to) ==
    IF /\ pos_from \in DOMAIN self.rooms
       /\ Cardinality({Up(pos_from), Right(pos_from), Down(pos_from), Left(pos_from)}
                          \cap DOMAIN self.rooms) = 1
       /\ Connected(RemoveKey(self.rooms, pos_from), Thrones(self))
       /\ pos_to \notin DOMAIN self.rooms
    THEN MoveRemoved(self, place_room([self EXCEPT !.rooms = RemoveKey(self.rooms, pos_from)],
                                      self.rooms[pos_from], pos_to))
    ELSE [castle |-> self, result |-> "InvalidMove"]

\* swap, with the two rooms exchanged: each is valid where it now stands
SwapValid(self, swapped, pos_1, pos_2) ==
    /\ place_valid([self EXCEPT !.rooms = RemoveKey(swapped, pos_1)], swapped[pos_1], pos_1)
    /\ place_valid([self EXCEPT !.rooms = RemoveKey(swapped, pos_2)], swapped[pos_2], pos_2)

Swapped(self, swapped, pos_1, pos_2) ==
    IF SwapValid(self, swapped, pos_1, pos_2)
    THEN [castle |-> [self EXCEPT !.rooms = swapped], result |-> "Ok"]
    ELSE [castle |-> self, result |-> "InvalidSwap"]

\* swap: two different occupied positions, each room valid in the other's
\* place
swap_room(self, pos_1, pos_2) ==
    IF /\ pos_1 # pos_2
       /\ pos_1 \in DOMAIN self.rooms
       /\ pos_2 \in DOMAIN self.rooms
    THEN Swapped(self,
                 [p \in DOMAIN self.rooms |->
                     IF p = pos_1 THEN self.rooms[pos_2]
                     ELSE IF p = pos_2 THEN self.rooms[pos_1] ELSE self.rooms[p]],
                 pos_1, pos_2)
    ELSE [castle |-> self, result |-> "InvalidSwap"]

\* is_lost: no throne position is occupied
is_lost(self) == Thrones(self) \cap DOMAIN self.rooms = {}

\* clear_rooms
clear_rooms(self) == [self EXCEPT !.rooms = [p \in {} |-> ThroneRoom]]

\* discard: like remove, the removed room is returned and the damage owed
\* decreases by one; discarding a throne clears the castle and its damage
discard_room(self, pos) ==
    IF /\ pos \in DOMAIN self.rooms
       /\ Connected(RemoveKey(self.rooms, pos), Thrones(self))
    THEN [castle |-> IF pos \in Thrones(self)
                     THEN [self EXCEPT !.rooms = [p \in {} |-> ThroneRoom], !.damage = 0]
                     ELSE [self EXCEPT !.rooms = RemoveKey(self.rooms, pos),
                                       !.damage = Max(0, self.damage - 1)],
          room |-> self.rooms[pos],
          result |-> "Ok"]
    ELSE [castle |-> self, room |-> ThroneRoom, result |-> "InvalidRemove"]

\* (any, diamond, cross, moon) as (diamond, cross, moon, wild)
WildLast(castle_links) ==
    <<castle_links[2], castle_links[3], castle_links[4], castle_links[1]>>

\* get_links: (diamond, cross, moon, wild)
get_links(self) == WildLast(FacingLinks(self))

\* the damage a castle with these links takes
DamageTaken(castle_links, diamond, cross, moon) ==
    Max(0, Max(0, diamond - castle_links[1]) + Max(0, cross - castle_links[2])
             + Max(0, moon - castle_links[3]) - castle_links[4])

\* deal_damage: what each category leaves after the castle's links of that
\* category, less the wild links, floored at 0, is the damage owed
deal_damage(self, diamond, cross, moon) ==
    [self EXCEPT !.damage = DamageTaken(get_links(self), diamond, cross, moon)]

(***************************************************************************)
(* SchrodingerGameState (game/schrodinger.rs)                              *)
(***************************************************************************)
\* the number of values of a u8
U8Values == 256

\* n * multiplier + addition on u8 operands: the value the wrapping
\* arithmetic of a release build leaves, and whether the product or the sum
\* overflows, on which a build with overflow checks aborts
MulAdd(n, calculation) ==
    [value |-> (((n * calculation.multiplier) % U8Values) + calculation.addition) % U8Values,
     overflow |-> \/ n * calculation.multiplier >= U8Values
                  \/ ((n * calculation.multiplier) % U8Values) + calculation.addition >= U8Values]

\* Disaster::diamond_damage, cross_damage, moon_damage: the value returned
\* when the call returns
diamond_damage(disaster, num_previous_disasters) ==
    MulAdd(num_previous_disasters, disaster.diamond).value
cross_damage(disaster, num_previous_disasters) ==
    MulAdd(num_previous_disasters, disaster.cross).value
moon_damage(disaster, num_previous_disasters) ==
    MulAdd(num_previous_disasters, disaster.moon).value

\* whether each of them returns: with overflow checks (debug builds) an
\* overflow aborts, without them (release builds) it wraps
Builds == {"checked", "wrapping"}
DamageResult(build, num_previous_disasters, calculation) ==
    IF build = "checked" /\ MulAdd(num_previous_disasters, calculation).overflow
    THEN "Panic" ELSE "Ok"

\* the GameSetting of the games: the rooms of the catalogue, three disasters
SettingNumSafe == 2
SettingNumShop == 2
SettingNumDisasters == 3
MaxRound == 2

\* the secrets callers pass; the one who is not seated is a stranger
SchSecrets == {"1", "2"}
\* the seatings of a game: one player, or two
SchTurnOrders == {<<"1">>, <<"1", "2">>}
SettingDisasters ==
    LobbyDisasters \cup {SimpleDisaster("Flood", 0, 0, 0, 1, 0, 0)}

GameSetting ==
    [num_safe |-> SettingNumSafe,
     num_shop |-> SettingNumShop,
     num_disasters |-> SettingNumDisasters,
     rooms |-> RoomCatalogue,
     disasters |-> SettingDisasters]

\* Action
ActPlace(index, pos) == [kind |-> "Place", index |-> index, pos_1 |-> pos, pos_2 |-> pos]
ActMove(from, to) == [kind |-> "Move", index |-> 0, pos_1 |-> from, pos_2 |-> to]
ActSwap(pos_1, pos_2) == [kind |-> "Swap", index |-> 0, pos_1 |-> pos_1, pos_2 |-> pos_2]
ActDiscard(pos) == [kind |-> "Discard", index |-> 0, pos_1 |-> pos, pos_2 |-> pos]

\* the index of the first item of seq that is item, 0-based; Len(seq) if none
Position(seq, item) ==
    IF \E i \in 1..Len(seq) : seq[i] = item
    THEN (CHOOSE i \in 1..Len(seq) : seq[i] = item /\ \A j \in 1..(i - 1) : seq[j] # item) - 1
    ELSE Len(seq)

\* SchrodingerGameState::is_turn_player; indexing turn_order out of range
\* aborts
is_turn_player(self, secret) ==
    IF self.turn_index >= Len(self.turn_order)
    THEN [result |-> "Panic", value |-> FALSE]
    ELSE IF self.turn_order[self.turn_index + 1] = secret
    THEN [result |-> "Ok", value |-> TRUE]
    ELSE IF secret \in DOMAIN self.castles
    THEN [result |-> "Ok", value |-> self.castles[secret].damage > 0]
    ELSE [result |-> "Ok", value |-> FALSE]

\* is_over that asks for exactly one player left
is_over_one_left(self) ==
    \/ Len(self.turn_order) = 1
    \/ Len(self.previous_disasters) = self.setting.num_disasters

\* is_over that waits for turn_order to be empty
is_over_none_left(self) ==
    \/ Len(self.turn_order) < 1
    \/ Len(self.previous_disasters) = self.setting.num_disasters

\* SchrodingerGameState::is_over
is_over(self) ==
    \/ Len(self.turn_order) <= 1
    \/ Len(self.previous_disasters) = self.setting.num_disasters

\* get_treasure of the castle: no room carries treasure
get_treasure(self) == 0

\* the sum of the four counts of get_links
TotalLinks(castle_links) ==
    castle_links[1] + castle_links[2] + castle_links[3] + castle_links[4]

\* the Ordering of two numbers
Cmp(x, y) == IF x > y THEN "Greater" ELSE IF x < y THEN "Less" ELSE "Equal"

\* compare_game_state with the comparison of the room counts reversed
compare_game_state_fewer_rooms(a, b) ==
    IF ~is_lost(a) /\ is_lost(b) THEN "Greater"
    ELSE IF is_lost(a) /\ ~is_lost(b) THEN "Less"
    ELSE IF get_treasure(a) # get_treasure(b) THEN Cmp(get_treasure(a), get_treasure(b))
    ELSE IF Cardinality(DOMAIN a.rooms) # Cardinality(DOMAIN b.rooms)
    THEN Cmp(Cardinality(DOMAIN b.rooms), Cardinality(DOMAIN a.rooms))
    ELSE Cmp(TotalLinks(get_links(a)), TotalLinks(get_links(b)))

\* compare_game_state
compare_game_state(a, b) ==
    IF ~is_lost(a) /\ is_lost(b) THEN "Greater"
    ELSE IF is_lost(a) /\ ~is_lost(b) THEN "Less"
    ELSE IF get_treasure(a) # get_treasure(b) THEN Cmp(get_treasure(a), get_treasure(b))
    ELSE IF Cardinality(DOMAIN a.rooms) # Cardinality(DOMAIN b.rooms)
    THEN Cmp(Cardinality(DOMAIN a.rooms), Cardinality(DOMAIN b.rooms))
    ELSE Cmp(TotalLinks(get_links(a)), TotalLinks(get_links(b)))

\* the players sort_unstable_by can put first: in descending order no
\* castle before the first compares Less to it
Firsts(self) ==
    {s \in DOMAIN self.castles :
        \A t \in DOMAIN self.castles :
            compare_game_state(self.castles[t], self.castles[s]) # "Greater"}

\* SchrodingerGameState::is_victorious: its outcomes over the orders the
\* unstable sort can leave
is_victorious(self, secret) ==
    IF DOMAIN self.castles = {}
    THEN {FALSE}
    ELSE { \E s \in DOMAIN self.castles :
               /\ compare_game_state(self.castles[s], self.castles[winner]) = "Equal"
               /\ s = secret :
           winner \in Firsts(self) }

\* the rooms of a castle, in the order the map yields them
RoomValues(rooms, positions) ==
    [i \in 1..Len(positions) |-> rooms[positions[i]]]

\* resolve_disaster, the closure of filter_map for the player at index, whose
\* castle has been dealt the damage: a lost castle's rooms go to the discard
\* pile, the castle is cleared and the cursor steps back if index is before it
Damaged(game, secret, index, castle) ==
    IF is_lost(castle)
    THEN [game EXCEPT
             !.castles[secret] = clear_rooms(castle),
             !.discard = game.discard \o
                 RoomValues(castle.rooms, CHOOSE seq \in Orders(DOMAIN castle.rooms) : TRUE),
             !.turn_index = IF index < game.turn_index
                            THEN game.turn_index - 1 ELSE game.turn_index]
    ELSE [game EXCEPT !.castles[secret] = castle,
                      !.turn_order = Append(game.turn_order, secret)]

\* resolve_disaster, the filter_map over order from index on; game.turn_order
\* collects the players who stay
RECURSIVE DealDamage(_, _, _, _, _, _)
DealDamage(game, order, index, diamond, cross, moon) ==
    IF index >= Len(order)
    THEN game
    ELSE DealDamage(Damaged(game, order[index + 1], index,
                            deal_damage(game.castles[order[index + 1]], diamond, cross, moon)),
                    order, index + 1, diamond, cross, moon)

\* the end of resolve_disaster without the push to previous_disasters
Resolved_unrecorded(game, disaster) ==
    IF game.turn_index >= Len(game.turn_order)
    THEN [game EXCEPT !.round = game.round + 1, !.turn_index = 0]
    ELSE game

\* resolve_disaster, after the filter_map: the cursor wraps, the disaster
\* joins the previous ones
Resolved(game, disaster) ==
    IF game.turn_index >= Len(game.turn_order)
    THEN [game EXCEPT !.round = game.round + 1,
                      !.turn_index = 0,
                      !.previous_disasters = Append(game.previous_disasters, disaster)]
    ELSE [game EXCEPT !.previous_disasters = Append(game.previous_disasters, disaster)]

\* SchrodingerGameState::resolve_disaster
resolve_disaster(self, disaster) ==
    Resolved(DealDamage([self EXCEPT !.turn_order = <<>>], self.turn_order, 0,
                        diamond_damage(disaster, Len(self.previous_disasters)),
                        cross_damage(disaster, Len(self.previous_disasters)),
                        moon_damage(disaster, Len(self.previous_disasters))),
             disaster)

\* next_round, one pass of the while loop: the outcomes of the random draw.
\* gen_ratio aborts on a denominator of 0, choose(..).unwrap() on an empty
\* set.  A second disaster in hand sends all but the last back, once
DrawCard(self, game, disasters, redealt, num_disasters_left) ==
    IF Cardinality(game.possible_rooms) + num_disasters_left = 0
    THEN {[result |-> "Panic", game |-> self, disasters |-> <<>>, redealt |-> redealt]}
    ELSE (IF num_disasters_left = 0
          THEN {}
          ELSE IF game.possible_disasters = {}
          THEN {[result |-> "Panic", game |-> self, disasters |-> <<>>, redealt |-> redealt]}
          ELSE { IF ~redealt /\ Len(disasters) > 0
                 THEN [result |-> "Ok",
                       game |-> [game EXCEPT !.possible_disasters =
                                     (game.possible_disasters \ {d})
                                         \cup {disasters[i] : i \in 1..Len(disasters)}],
                       disasters |-> <<d>>,
                       redealt |-> TRUE]
                 ELSE [result |-> "Ok",
                       game |-> [game EXCEPT !.possible_disasters = game.possible_disasters \ {d}],
                       disasters |-> Append(disasters, d),
                       redealt |-> redealt] :
                 d \in game.possible_disasters })
         \cup
         { [result |-> "Ok",
            game |-> [game EXCEPT !.possible_rooms = game.possible_rooms \ {r},
                                  !.shop = Append(game.shop, r)],
            disasters |-> disasters,
            redealt |-> redealt] : r \in game.possible_rooms }

\* next_round: the disasters of the game not met, queued or in hand
DisastersLeft(game, disasters) ==
    game.setting.num_disasters - Len(game.previous_disasters)
        - Len(game.queued_disasters) - Len(disasters)

\* next_round, the while loop: the outcomes of the random draws.  No
\* disaster is drawn while fewer than num_safe rooms have left possible_rooms
RECURSIVE DrawCards(_, _)
DrawCards(self, hand) ==
    IF \/ hand.result = "Panic"
       \/ ~(/\ Len(hand.game.shop) < hand.game.setting.num_shop
            /\ DisastersLeft(hand.game, hand.disasters) > 0)
    THEN {hand}
    ELSE UNION {DrawCards(self, drawn) :
                    drawn \in DrawCard(self, hand.game, hand.disasters, hand.redealt,
                                       IF hand.game.setting.num_safe >
                                              Cardinality(self.setting.rooms)
                                                  - Cardinality(self.possible_rooms)
                                       THEN 0
                                       ELSE DisastersLeft(hand.game, hand.disasters))}

\* next_round, after the loop: the last disaster in hand is resolved, the
\* others are the queue
Drawn(self, hand) ==
    IF hand.result = "Panic"
    THEN [result |-> "Panic", game |-> self]
    ELSE IF Len(hand.disasters) = 0
    THEN [result |-> "Ok", game |-> hand.game]
    ELSE [result |-> "Ok",
          game |-> [resolve_disaster(hand.game, hand.disasters[Len(hand.disasters)])
                       EXCEPT !.queued_disasters =
                           SubSeq(hand.disasters, 1, Len(hand.disasters) - 1)]]

\* SchrodingerGameState::next_round: the set of its outcomes
next_round(self) ==
    { Drawn(self, hand) :
        hand \in DrawCards(self, [result |-> "Ok",
                                  game |-> [self EXCEPT !.round = self.round + 1,
                                                        !.discard = self.discard \o self.shop,
                                                        !.shop = <<>>],
                                  disasters |-> <<>>,
                                  redealt |-> FALSE]) }

\* next_turn whose wrap-around seats the first player a second time, at the
\* end, without taking the player from the front
next_turn_reseating(self) ==
    IF self.turn_index + 1 >= Len(self.turn_order)
    THEN next_round([self EXCEPT !.turn_index = 0,
                                 !.turn_order = Append(self.turn_order, Head(self.turn_order))])
    ELSE {[result |-> "Ok", game |-> [self EXCEPT !.turn_index = self.turn_index + 1]]}

\* next_turn without the rotate_left(1) of the wrap-around
next_turn_unrotated(self) ==
    IF self.turn_index + 1 >= Len(self.turn_order)
    THEN next_round([self EXCEPT !.turn_index = 0])
    ELSE {[result |-> "Ok", game |-> [self EXCEPT !.turn_index = self.turn_index + 1]]}

\* SchrodingerGameState::next_turn: the set of its outcomes
next_turn(self) ==
    IF self.turn_index + 1 >= Len(self.turn_order)
    THEN next_round([self EXCEPT !.turn_index = 0,
                                 !.turn_order = RotateFront(self.turn_order)])
    ELSE {[result |-> "Ok", game |-> [self EXCEPT !.turn_index = self.turn_index + 1]]}

SchResult(self, result) == {[result |-> result, game |-> self]}

\* the ? on a castle call, then next_turn; an abort leaves the caller self
AdvanceTurn(self, game, player_secret, out) ==
    IF out.result # "Ok"
    THEN SchResult(self, out.result)
    ELSE { IF turned.result = "Ok" THEN turned ELSE [result |-> "Panic", game |-> self] :
           turned \in next_turn([game EXCEPT !.castles[player_secret] = out.castle]) }

\* the removal from turn_order without the wrap of turn_index
Eliminated_unwrapped(game, index) ==
    [game EXCEPT !.turn_order = RemoveAt(game.turn_order, index + 1),
                 !.turn_index = IF index < game.turn_index
                                THEN game.turn_index - 1 ELSE game.turn_index]

\* action, the Discard arm, a castle that lost its last throne: its player
\* at index leaves turn_order
Eliminated(game, index) ==
    IF (IF index < game.turn_index THEN game.turn_index - 1 ELSE game.turn_index)
           >= Len(game.turn_order) - 1
    THEN [game EXCEPT !.turn_order = RemoveAt(game.turn_order, index + 1),
                      !.round = game.round + 1,
                      !.turn_index = 0]
    ELSE [game EXCEPT !.turn_order = RemoveAt(game.turn_order, index + 1),
                      !.turn_index = IF index < game.turn_index
                                     THEN game.turn_index - 1 ELSE game.turn_index]

\* the end of the Discard arm without the test of the damage owed
Queued_unpaid(game) ==
    IF Len(game.queued_disasters) > 0
    THEN resolve_disaster(
             [game EXCEPT !.queued_disasters =
                  SubSeq(game.queued_disasters, 1, Len(game.queued_disasters) - 1)],
             game.queued_disasters[Len(game.queued_disasters)])
    ELSE game

\* action, the Discard arm, its end: with no damage left to pay, the last
\* queued disaster is resolved
Queued(game) ==
    IF /\ \A s \in DOMAIN game.castles :
              game.castles[s].damage = 0 \/ is_lost(game.castles[s])
       /\ Len(game.queued_disasters) > 0
    THEN resolve_disaster(
             [game EXCEPT !.queued_disasters =
                  SubSeq(game.queued_disasters, 1, Len(game.queued_disasters) - 1)],
             game.queued_disasters[Len(game.queued_disasters)])
    ELSE game

\* the Discard arm without the removal of a player whose castle is lost
Discarded_seated(self, player_secret, out) ==
    IF out.result # "Ok"
    THEN SchResult(self, out.result)
    ELSE SchResult(Queued([self EXCEPT !.discard = Append(self.discard, out.room),
                                       !.castles[player_secret] = out.castle]),
                   "Ok")

\* action, the Discard arm once discard_room has answered.  unwrap() of the
\* turn index of a player who is in no turn_order aborts
Discarded(self, player_secret, out) ==
    IF out.result # "Ok"
    THEN SchResult(self, out.result)
    ELSE IF ~is_lost(out.castle)
    THEN SchResult(Queued([self EXCEPT !.discard = Append(self.discard, out.room),
                                       !.castles[player_secret] = out.castle]),
                   "Ok")
    ELSE IF Position(self.turn_order, player_secret) >= Len(self.turn_order)
    THEN SchResult(self, "Panic")
    ELSE SchResult(Queued(Eliminated([self EXCEPT
                                         !.discard = Append(self.discard, out.room),
                                         !.castles[player_secret] = clear_rooms(out.castle)],
                                     Position(self.turn_order, player_secret))),
                   "Ok")

\* SchrodingerGameState::action: the set of its outcomes, each a result and
\* the state the caller holds afterwards (self, unless the result is Ok)
action(self, player_secret, act) ==
    IF player_secret \notin DOMAIN self.castles
    THEN SchResult(self, "InvalidPlayer")
    ELSE IF /\ self.castles[player_secret].damage = 0
            /\ is_turn_player(self, player_secret).result = "Panic"
    THEN SchResult(self, "Panic")
    ELSE IF /\ self.castles[player_secret].damage = 0
            /\ ~is_turn_player(self, player_secret).value
    THEN SchResult(self, "NotTurnPlayer")
    ELSE IF act.kind = "Discard"
    THEN Discarded(self, player_secret, discard_room(self.castles[player_secret], act.pos_1))
    ELSE IF act.kind = "Place" /\ act.index >= Len(self.shop)
    THEN SchResult(self, "InvalidShopIndex")
    ELSE AdvanceTurn(
             self,
             IF act.kind = "Place"
             THEN [self EXCEPT !.shop = RemoveAt(self.shop, act.index + 1)]
             ELSE self,
             player_secret,
             IF act.kind = "Place"
             THEN place_room(self.castles[player_secret], self.shop[act.index + 1], act.pos_1)
             ELSE IF act.kind = "Move"
             THEN move_room(self.castles[player_secret], act.pos_1, act.pos_2)
             ELSE swap_room(self.castles[player_secret], act.pos_1, act.pos_2))

(***************************************************************************)
(* The state: one Castle and its caller (Spec), one GamePlay and its       *)
(* callers (GameSpec), one SchrodingerGameState and its callers (SchSpec). *)
(***************************************************************************)
VARIABLES
    castle,     \* the Castle
    before,     \* the Castle as it was when the last call was made
    last,       \* the last Castle call: operation, arguments, result, returned value
    game,       \* the GamePlay
    glast,      \* the last GamePlay call: operation, secret, result, wrapped castle error
    sch,        \* the SchrodingerGameState the callers hold
    slast       \* the last call of action: secret, kind of action, result

castleVars == <<castle, before, last>>
gameVars == <<game, glast>>
schVars == <<sch, slast>>
vars == <<castle, before, last, game, glast, sch, slast>>

Call(op, args, result, value) ==
    [op |-> op, args |-> args, result |-> result, value |-> value]

GameCall(op, secret, result, cause) ==
    [op |-> op, secret |-> secret, result |-> result, cause |-> cause]

SchCall(secret, act, result) ==
    [secret |-> secret, kind |-> act.kind, result |-> result]

CastleInit ==
    /\ castle = new(ThroneRoom)
    /\ before = new(ThroneRoom)
    /\ last = Call("new", <<>>, "Ok", <<>>)

\* no game has been started
NoGame ==
    /\ game = [turn |-> from_iter(<<>>), players |-> <<>>, deck |-> <<>>,
               dealt_shop |-> FALSE, shop |-> <<>>, discard |-> <<>>,
               previous_disasters |-> <<>>]
    /\ glast = GameCall("none", 0, "Ok", "")

\* no SchrodingerGameState has been made
NoSch ==
    /\ sch = [shop |-> <<>>, discard |-> <<>>, previous_disasters |-> <<>>,
              queued_disasters |-> <<>>, round |-> 0, setting |-> GameSetting,
              castles |-> <<>>, turn_order |-> <<>>, turn_index |-> 0,
              possible_rooms |-> {}, possible_disasters |-> {}]
    /\ slast = SchCall("", ActDiscard(<<0, 0>>), "None")

Init == CastleInit /\ NoGame /\ NoSch

\* no call is made on a castle whose last call aborted
Alive == last.result # "Panic"

Mutate(op, args, out) ==
    /\ before' = castle
    /\ castle' = out.castle
    /\ last' = Call(op, args, out.result, <<>>)
    /\ UNCHANGED <<gameVars, schVars>>

Place ==
    /\ Alive
    /\ num_rooms(castle) < MaxRooms
    /\ \E room \in RoomCatalogue, pos \in Positions :
           Mutate("place", <<room, pos>>, place(castle, room, pos))

Remove ==
    /\ Alive
    /\ \E pos \in Positions : Mutate("remove", <<pos>>, remove(castle, pos))

MoveOuter ==
    /\ Alive
    /\ \E pos_from \in Positions, pos_to \in Positions :
           Mutate("move_outer", <<pos_from, pos_to>>, move_outer(castle, pos_from, pos_to))

Swap ==
    /\ Alive
    /\ \E pos_1 \in Positions, pos_2 \in Positions :
           Mutate("swap", <<pos_1, pos_2>>, swap(castle, pos_1, pos_2))

Links ==
    /\ Alive
    /\ before' = castle
    /\ last' = Call("links", <<>>, "Ok", links(castle))
    /\ UNCHANGED <<castle, gameVars, schVars>>

IsPowered ==
    /\ Alive
    /\ \E pos \in Positions :
           LET out == is_powered(castle, pos)
           IN last' = Call("is_powered", <<pos>>, out.result, out.value)
    /\ before' = castle
    /\ UNCHANGED <<castle, gameVars, schVars>>

Next == Place \/ Remove \/ MoveOuter \/ Swap \/ Links \/ IsPowered

Spec == Init /\ [][Next]_vars

(***************************************************************************)
(* GameSpec: the GamePlay of start_game and the calls made on it.          *)
(***************************************************************************)
GameInit ==
    /\ CastleInit
    /\ game \in start_game
    /\ glast = GameCall("start_game", 0, "Ok", "")
    /\ NoSch

\* no call is made on a game that aborted or that returned its GameEnd
Running == glast.result \notin {"Panic", "End"}

GameStep(op, secret, out) ==
    /\ game' = out.game
    /\ glast' = GameCall(op, secret, out.result, out.cause)
    /\ UNCHANGED <<castleVars, schVars>>

UpdateGameStates ==
    /\ Running
    /\ \E out \in update_game_states(game) :
           GameStep("update_game_states", 0, [game |-> out.game, result |-> out.result, cause |-> ""])

GamePlace ==
    /\ Running
    /\ \E secret \in Secrets \cup Strangers, shop_index \in 0..NumShop, pos \in GamePositions :
           GameStep("place", secret, game_place(game, secret, shop_index, pos))

GameMoveOuter ==
    /\ Running
    /\ \E secret \in Secrets \cup Strangers, pos_from \in GamePositions, pos_to \in GamePositions :
           GameStep("move_outer", secret, game_move_outer(game, secret, pos_from, pos_to))

GameSwap ==
    /\ Running
    /\ \E secret \in Secrets \cup Strangers, pos_from \in GamePositions, pos_to \in GamePositions :
           GameStep("swap", secret, game_swap(game, secret, pos_from, pos_to))

GameRemove ==
    /\ Running
    /\ \E secret \in Secrets \cup Strangers, pos \in GamePositions :
           GameStep("remove", secret, game_remove(game, secret, pos))

GameNext == UpdateGameStates \/ GamePlace \/ GameMoveOuter \/ GameSwap \/ GameRemove

GameSpec == GameInit /\ [][GameNext]_vars

(***************************************************************************)
(* SchSpec: a SchrodingerGameState at the start of a game and the actions  *)
(* its players and strangers ask of it.                                    *)
(***************************************************************************)
\* the settings of the games: shops of one room up to SettingNumShop rooms,
\* one safe room up to SettingNumSafe
SchSettings ==
    {[GameSetting EXCEPT !.num_shop = n, !.num_safe = m] :
        n \in 1..SettingNumShop, m \in 1..SettingNumSafe}

\* the first shops: num_shop rooms of the setting (all of them if they are
\* fewer), each choice of rooms in the order of their ids
FirstShops(setting) ==
    {shop \in UNION {Orders(S) : S \in SUBSET setting.rooms} :
        /\ Len(shop) = IF setting.num_shop <= Cardinality(setting.rooms)
                       THEN setting.num_shop
                       ELSE Cardinality(setting.rooms)
        /\ \A i \in 1..(Len(shop) - 1) : shop[i].id < shop[i + 1].id}

\* the state of a game that starts: every player a throne, the first shop
\* dealt, the players in the order of the shuffle, no disaster met
SchInit ==
    /\ CastleInit
    /\ NoGame
    /\ \E setting \in SchSettings, turn_order \in SchTurnOrders :
           \E shop \in FirstShops(setting) :
               sch = [shop |-> shop,
                      discard |-> <<>>,
                      previous_disasters |-> <<>>,
                      queued_disasters |-> <<>>,
                      round |-> 0,
                      setting |-> setting,
                      castles |-> [s \in {turn_order[i] : i \in 1..Len(turn_order)} |->
                                      new_castle(ThroneRoom)],
                      turn_order |-> turn_order,
                      turn_index |-> 0,
                      possible_rooms |-> setting.rooms \ {shop[i] : i \in 1..Len(shop)},
                      possible_disasters |-> setting.disasters]
    /\ slast = SchCall("", ActDiscard(<<0, 0>>), "None")

\* no call is made once a call aborted, nor after MaxRound rounds
SchRunning == slast.result # "Panic" /\ sch.round < MaxRound

SchStep(secret, act) ==
    /\ SchRunning
    /\ \E out \in action(sch, secret, act) :
           /\ sch' = out.game
           /\ slast' = SchCall(secret, act, out.result)
    /\ UNCHANGED <<castleVars, gameVars>>

SchPlace ==
    \E secret \in SchSecrets, index \in 0..SettingNumShop, pos \in GamePositions :
        SchStep(secret, ActPlace(index, pos))

SchMove ==
    \E secret \in SchSecrets, from \in GamePositions, to \in GamePositions :
        SchStep(secret, ActMove(from, to))

SchSwap ==
    \E secret \in SchSecrets, pos_1 \in GamePositions, pos_2 \in GamePositions :
        SchStep(secret, ActSwap(pos_1, pos_2))

SchDiscard ==
    \E secret \in SchSecrets, pos \in GamePositions :
        SchStep(secret, ActDiscard(pos))

SchNext == SchPlace \/ SchMove \/ SchSwap \/ SchDiscard

SchSpec == SchInit /\ [][SchNext]_vars

(***************************************************************************)
(* ResolveSpec: resolve_disaster on the states a caller can hand over (the *)
(* fields of SchrodingerGameState are public): three or four seated        *)
(* players, the cursor on any of them, any of their castles lost when the  *)
(* damage has been dealt.                                                  *)
(***************************************************************************)
MaxSeats == 4

\* the seatings: the first n secrets in order, for 3 <= n <= MaxSeats
ResolveTurnOrders ==
    {SubSeq(<<"1", "2", "3", "4", "5">>, 1, n) : n \in {m \in 3..MaxSeats : m <= 5}}

ResolveInit ==
    /\ CastleInit
    /\ NoGame
    /\ \E turn_order \in ResolveTurnOrders :
           \E turn_index \in 0..(Len(turn_order) - 1),
              lost \in SUBSET {turn_order[i] : i \in 1..Len(turn_order)} :
               sch = [shop |-> <<>>,
                      discard |-> <<>>,
                      previous_disasters |-> <<>>,
                      queued_disasters |-> <<>>,
                      round |-> 1,
                      setting |-> GameSetting,
                      castles |-> [s \in {turn_order[i] : i \in 1..Len(turn_order)} |->
                                      IF s \in lost
                                      THEN clear_rooms(new_castle(ThroneRoom))
                                      ELSE new_castle(ThroneRoom)],
                      turn_order |-> turn_order,
                      turn_index |-> turn_index,
                      possible_rooms |-> GameSetting.rooms,
                      possible_disasters |-> GameSetting.disasters]
    /\ slast = SchCall("", ActDiscard(<<0, 0>>), "None")

\* one disaster of the deck is resolved
ResolveDisaster ==
    /\ slast.result = "None"
    /\ \E disaster \in sch.possible_disasters :
           sch' = resolve_disaster(
                      [sch EXCEPT !.possible_disasters = sch.possible_disasters \ {disaster}],
                      disaster)
    /\ slast' = [secret |-> "", kind |-> "Resolve", result |-> "Ok"]
    /\ UNCHANGED <<castleVars, gameVars>>

ResolveNext == ResolveDisaster

ResolveSpec == ResolveInit /\ [][ResolveNext]_vars

(***************************************************************************)
(* ConnectionSpec: link on every pair of Connection values.                *)
(***************************************************************************)
\* every value of the enum Connection
Connections ==
    {ConnNone, ConnAny} \cup UNION {{Diamond(gold), Cross(gold), Moon(gold)} : gold \in BOOLEAN}

ConnectionInit ==
    /\ castle = new(ThroneRoom)
    /\ before = new(ThroneRoom)
    /\ \E self \in Connections, other \in Connections :
           last = Call("connections", <<self, other>>, "Ok", <<>>)
    /\ NoGame
    /\ NoSch

\* self.link(other) is evaluated
ConnectionLink ==
    /\ last.op = "connections"
    /\ last' = Call("link", last.args, "Ok", link(last.args[1], last.args[2]))
    /\ UNCHANGED <<castle, before, gameVars, schVars>>

ConnectionNext == ConnectionLink

ConnectionSpec == ConnectionInit /\ [][ConnectionNext]_vars

(***************************************************************************)
(* RoomSpec: rotate_right and rotate_left on rooms of every shape.         *)
(***************************************************************************)
\* the sides of the rooms handed to the rotations
RoomSides == {ConnNone, ConnAny, Diamond(TRUE), Cross(FALSE)}

RoomInit ==
    /\ castle = new(ThroneRoom)
    /\ before = new(ThroneRoom)
    /\ \E up \in RoomSides, right \in RoomSides, down \in RoomSides, left \in RoomSides :
           last = Call("room",
                       <<[id |-> 1, name |-> "Room",
                          up |-> up, right |-> right, down |-> down, left |-> left]>>,
                       "Ok", <<>>)
    /\ NoGame
    /\ NoSch

\* room.rotate_right(): what the caller gets back
RoomRotateRight ==
    /\ last.op = "room"
    /\ last' = Call("rotate_right", last.args, rotate_right(last.args[1]).returns, <<>>)
    /\ UNCHANGED <<castle, before, gameVars, schVars>>

\* room.rotate_left(): what the caller gets back
RoomRotateLeft ==
    /\ last.op = "room"
    /\ last' = Call("rotate_left", last.args, rotate_left(last.args[1]).returns, <<>>)
    /\ UNCHANGED <<castle, before, gameVars, schVars>>

RoomNext == RoomRotateRight \/ RoomRotateLeft

RoomSpec == RoomInit /\ [][RoomNext]_vars

(***************************************************************************)
(* DisasterSpec: the damage of disasters with small and large u8           *)
(* multipliers and additions, at the history lengths of a game.            *)
(***************************************************************************)
\* the longest history: a game of MaxHistory + 1 disasters
MaxHistory == 3

\* multipliers and additions: the ends of the u8 range and its middle
U8Samples == {0, 1, U8Values \div 2, U8Values - 1}

DisasterInit ==
    /\ castle = new(ThroneRoom)
    /\ before = new(ThroneRoom)
    /\ \E diamond_m \in U8Samples, diamond_a \in U8Samples, cross_m \in U8Samples,
          cross_a \in {0, 1}, moon_m \in {0, 1}, moon_a \in U8Samples,
          num_previous_disasters \in 0..MaxHistory :
           last = Call("disaster",
                       <<SimpleDisaster("Disaster", diamond_m, diamond_a, cross_m, cross_a,
                                        moon_m, moon_a),
                         num_previous_disasters>>,
                       "Ok", 0)
    /\ NoGame
    /\ NoSch

DisasterCall(op, build, calculation, value) ==
    /\ last.op = "disaster"
    /\ last' = Call(op, last.args, DamageResult(build, last.args[2], calculation),
                    IF DamageResult(build, last.args[2], calculation) = "Ok" THEN value ELSE 0)
    /\ UNCHANGED <<castle, before, gameVars, schVars>>

DiamondDamage ==
    \E build \in Builds :
        DisasterCall("diamond_damage", build, last.args[1].diamond,
                     diamond_damage(last.args[1], last.args[2]))

CrossDamage ==
    \E build \in Builds :
        DisasterCall("cross_damage", build, last.args[1].cross,
                     cross_damage(last.args[1], last.args[2]))

MoonDamage ==
    \E build \in Builds :
        DisasterCall("moon_damage", build, last.args[1].moon,
                     moon_damage(last.args[1], last.args[2]))

DisasterNext == DiamondDamage \/ CrossDamage \/ MoonDamage

DisasterSpec == DisasterInit /\ [][DisasterNext]_vars

(***************************************************************************)
(* DrawSpec: the while loop of next_round pass by pass, from the start of  *)
(* a game: sch is the local game, slast the other locals of the loop       *)
(* (disasters, redealt) and the state next_round was called on.            *)
(***************************************************************************)
Hand(kind, result, self, disasters, redealt) ==
    [secret |-> "", kind |-> kind, result |-> result, self |-> self,
     disasters |-> disasters, redealt |-> redealt]

\* next_round is called on a game that starts: round and discard are set
\* and the shop is emptied before the loop
DrawInit ==
    /\ CastleInit
    /\ NoGame
    /\ \E setting \in SchSettings, turn_order \in SchTurnOrders :
           \E shop \in FirstShops(setting) :
               LET self == [shop |-> shop,
                            discard |-> <<>>,
                            previous_disasters |-> <<>>,
                            queued_disasters |-> <<>>,
                            round |-> 0,
                            setting |-> setting,
                            castles |-> [s \in {turn_order[i] : i \in 1..Len(turn_order)} |->
                                            new_castle(ThroneRoom)],
                            turn_order |-> turn_order,
                            turn_index |-> 0,
                            possible_rooms |-> setting.rooms \ {shop[i] : i \in 1..Len(shop)},
                            possible_disasters |-> setting.disasters]
               IN /\ sch = [self EXCEPT !.round = self.round + 1,
                                        !.discard = self.discard \o self.shop,
                                        !.shop = <<>>]
                  /\ slast = Hand("Loop", "Ok", self, <<>>, FALSE)

\* the test of the while loop
DrawMore ==
    /\ Len(sch.shop) < sch.setting.num_shop
    /\ DisastersLeft(sch, slast.disasters) > 0

\* one pass of the loop
DrawPass ==
    /\ slast.kind = "Loop"
    /\ slast.result = "Ok"
    /\ DrawMore
    /\ \E drawn \in DrawCard(slast.self, sch, slast.disasters, slast.redealt,
                             IF sch.setting.num_safe >
                                    Cardinality(slast.self.setting.rooms)
                                        - Cardinality(slast.self.possible_rooms)
                             THEN 0
                             ELSE DisastersLeft(sch, slast.disasters)) :
           /\ sch' = drawn.game
           /\ slast' = Hand("Loop", drawn.result, slast.self, drawn.disasters, drawn.redealt)
    /\ UNCHANGED <<castleVars, gameVars>>

\* the loop is left: the last disaster in hand is resolved, the others are
\* queued
DrawEnd ==
    /\ slast.kind = "Loop"
    /\ slast.result = "Ok"
    /\ ~DrawMore
    /\ sch' = Drawn(slast.self, [result |-> "Ok", game |-> sch,
                                 disasters |-> slast.disasters,
                                 redealt |-> slast.redealt]).game
    /\ slast' = Hand("Return", "Ok", slast.self, slast.disasters, slast.redealt)
    /\ UNCHANGED <<castleVars, gameVars>>

DrawNext == DrawPass \/ DrawEnd

DrawSpec == DrawInit /\ [][DrawNext]_vars

(***************************************************************************)
(* LobbySpec: a GameLobby whose disasters are locked by name and whose     *)
(* game is then started; last.args[1] is the lobby, last.value the         *)
(* disaster cards start_game put in the deck.                              *)
(***************************************************************************)
MaxLocked == 2

\* the names callers pass to lock_disaster; no disaster is called Plague
LockNames == {disaster.name : disaster \in SettingDisasters} \cup {"Plague"}

\* GameLobby::lock_disaster: a clone of the first disaster of that name
\* joins locked_disasters, the disaster stays in disasters
lock_disaster(self, name) ==
    IF \E i \in 1..Len(self.disasters) : self.disasters[i].name = name
    THEN [result |-> "Ok",
          lobby |-> [self EXCEPT !.locked_disasters =
                        Append(self.locked_disasters,
                               self.disasters[CHOOSE i \in 1..Len(self.disasters) :
                                                 /\ self.disasters[i].name = name
                                                 /\ \A j \in 1..(i - 1) :
                                                        self.disasters[j].name # name])]]
    ELSE [result |-> "InvalidDisaster", lobby |-> self]

\* a new lobby to which the disasters have been added, in any order, for
\* games of one disaster up to SettingNumDisasters
LobbyInit ==
    /\ castle = new(ThroneRoom)
    /\ before = new(ThroneRoom)
    /\ \E disasters \in Orders(SettingDisasters), num_disasters \in 1..SettingNumDisasters :
           last = Call("new", <<[disasters |-> disasters,
                                 locked_disasters |-> <<>>,
                                 num_disasters |-> num_disasters]>>, "Ok", <<>>)
    /\ NoGame
    /\ NoSch

LockDisaster ==
    /\ last.op \in {"new", "lock_disaster"}
    /\ Len(last.args[1].locked_disasters) < MaxLocked
    /\ \E name \in LockNames :
           LET out == lock_disaster(last.args[1], name)
           IN last' = Call("lock_disaster", <<out.lobby>>, out.result, <<>>)
    /\ UNCHANGED <<castle, before, gameVars, schVars>>

\* start_game: the disasters are shuffled and the disaster cards picked
StartGame ==
    /\ last.op \in {"new", "lock_disaster"}
    /\ \E disasters \in Shuffles(last.args[1].disasters) :
           last' = Call("start_game", last.args, "Ok",
                        PickDisasters(last.args[1].locked_disasters, disasters,
                                      last.args[1].num_disasters))
    /\ UNCHANGED <<castle, before, gameVars, schVars>>

LobbyNext == LockDisaster \/ StartGame

LobbySpec == LobbyInit /\ [][LobbyNext]_vars

(***************************************************************************)
(* SurvivorSpec: a GamePlay after its first deal, when the first player    *)
(* had built before it (players is a public field of GamePlay: the castles *)
(* are the caller's to set), so that a disaster does not strike all alike. *)
(***************************************************************************)
\* the castles of one or two rooms beside the throne
BuiltCastles ==
    LET first == {place(new(ThroneRoom), room, pos).castle :
                      room \in RoomCatalogue,
                      pos \in {p \in GamePositions :
                                  \E r \in RoomCatalogue : place(new(ThroneRoom), r, p).result = "Ok"}}
    IN first \cup UNION {{place(c, room, pos).castle : room \in RoomCatalogue, pos \in GamePositions} :
                            c \in first}

\* update_game_states has been called once on the game of start_game
SurvivorInit ==
    /\ CastleInit
    /\ \E started \in start_game, built \in BuiltCastles :
           \E out \in update_game_states([started EXCEPT !.players[1].castle = built]) :
               /\ game = out.game
               /\ glast = GameCall("update_game_states", 0, out.result, "")
    /\ NoSch

SurvivorNext == UpdateGameStates \/ GameRemove

SurvivorSpec == SurvivorInit /\ [][SurvivorNext]_vars

\* update_game_states is called again and again
SurvivorLiveSpec == SurvivorSpec /\ WF_vars(UpdateGameStates)

(***************************************************************************)
(* Properties                                                              *)
(***************************************************************************)
\* C1: after any sequence of successful castle operations every position in
\* rooms is reachable in the connections graph from a position in
\* throne_rooms.
C1_ThroneReachable ==
    Alive =>
        \A p \in DOMAIN castle.rooms :
            \E t \in Thrones(castle) : p \in Reach(castle.connections.edges, {t})

\* C2: remove(pos) returns InvalidRemove and removes nothing whenever the
\* removal would leave a remaining room without a path to a throne position.
C2_OrphaningRemoveRejected ==
    (last.op = "remove" /\ Orphans(before, last.args[1])) =>
        (last.result = "InvalidRemove" /\ castle = before)

\* C3: place(room, pos) returns InvalidPlace whenever pos is not in
\* free_pos().
C3_PlaceNeedsNeighbour ==
    (last.op = "place" /\ last.args[2] \notin free_pos(before)) =>
        last.result = "InvalidPlace"

\* C4: move_outer(from, to) succeeds exactly when move_outer_valid(from, to)
\* is true, and returns InvalidMove otherwise.
C4_MoveOuterFollowsValid ==
    last.op = "move_outer" =>
        IF move_outer_valid(before, last.args[1], last.args[2])
        THEN last.result = "Ok"
        ELSE last.result = "InvalidMove"

\* C5: swap(p1, p2) exchanges the two rooms exactly when p1 # p2, both are
\* occupied and each room is place-valid at the other's position, and
\* returns InvalidSwap in every other case.
C5_SwapFollowsValid ==
    last.op = "swap" =>
        LET p1 == last.args[1]
            p2 == last.args[2]
        IN IF /\ p1 # p2
              /\ p1 \in DOMAIN before.rooms
              /\ p2 \in DOMAIN before.rooms
              /\ place_valid(before, before.rooms[p1], p2)
              /\ place_valid(before, before.rooms[p2], p1)
           THEN /\ last.result = "Ok"
                /\ castle.rooms = [p \in DOMAIN before.rooms |->
                                      IF p = p1 THEN before.rooms[p2]
                                      ELSE IF p = p2 THEN before.rooms[p1]
                                      ELSE before.rooms[p]]
           ELSE last.result = "InvalidSwap" /\ castle = before

\* C6: links() returns, per kind (any, diamond, cross, moon), the number of
\* pairs of adjacent occupied cells whose two facing sides classify to that
\* kind under Connection::link, each pair counted once.
C6_LinksCountFacingSides ==
    last.op = "links" => last.value = FacingLinks(before)

\* C7: is_powered(pos) is true exactly when every gold side of the room at
\* pos faces an occupied cell whose facing side has the same emblem kind.
C7_PoweredByFacingSides ==
    (last.op = "is_powered" /\ last.result = "Ok") =>
        (last.value <=> FacingPowered(before, last.args[1]))

\* C8: a successful place(room, pos) immediately followed by remove(pos)
\* succeeds and yields the castle as it was before the place, rooms and
\* connections alike.
C8_PlaceThenRemove ==
    (last.op = "place" /\ last.result = "Ok") =>
        LET undone == remove(castle, last.args[2])
        IN /\ undone.result = "Ok"
           /\ undone.castle.rooms = before.rooms
           /\ undone.castle.connections = before.connections

\* a room placed beside a room that has a node of the graph, then removed
C8_Witness ==
    /\ last.op = "place"
    /\ last.result = "Ok"
    /\ \E e \in castle.connections.edges : last.args[2] \in e
    /\ remove(castle, last.args[2]).castle = before

\* C9: no castle or game operation aborts: every call returns Ok or an
\* error value.
C9_NoAbort == last.result # "Panic"

\* C10: a game operation that returns an error leaves the game as it was
\* before the call, the shop included.
C10_ErrorLeavesGame ==
    [][glast'.result \in {"InvalidAction", "InvalidPlayer", "InvalidShopIndex", "CastleError"}
         => game' = game]_vars


\* C11: whenever place, remove, move_outer or swap returns an error, the
\* castle's rooms and connections are what they were before the call.
C11_ErrorLeavesCastle ==
    (/\ last.op \in {"place", "remove", "move_outer", "swap"}
     /\ last.result \in {"InvalidPlace", "InvalidRemove", "InvalidMove", "InvalidSwap"})
        => /\ castle.rooms = before.rooms
           /\ castle.connections = before.connections

\* a place at an empty position refused, for a wall against a neighbour, by
\* a castle that holds a room beside the throne and a node in its graph
C11_Witness ==
    /\ last.op = "place"
    /\ last.result = "InvalidPlace"
    /\ Len(castle.connections.nodes) >= 1
    /\ last.args[2] \notin DOMAIN castle.rooms
    /\ castle = before


\* C12: an action issued with a secret that belongs to no player is rejected
\* with InvalidPlayer, whatever the action and its arguments are.
C12_StrangerIsInvalidPlayer ==
    (/\ glast.op \in {"place", "move_outer", "swap", "remove"}
     /\ glast.secret \in Strangers)
        => glast.result = "InvalidPlayer"


\* C13: in every reachable state an action from a known player is rejected
\* with NotTurnPlayer exactly when that player is neither
\* turn_order[turn_index] nor the owner of a castle with damage > 0, and
\* is_turn_player(secret) is true exactly in the complementary case.
C13_NotTurnPlayerExactly ==
    [][/\ slast'.secret \in DOMAIN sch.castles
           => (slast'.result = "NotTurnPlayer"
                  <=> /\ sch.castles[slast'.secret].damage = 0
                      /\ ~(/\ sch.turn_index < Len(sch.turn_order)
                           /\ sch.turn_order[sch.turn_index + 1] = slast'.secret))
       /\ \A secret \in DOMAIN sch.castles :
              is_turn_player(sch, secret)
                  = [result |-> "Ok",
                     value |-> ~(/\ sch.castles[secret].damage = 0
                                 /\ ~(/\ sch.turn_index < Len(sch.turn_order)
                                      /\ sch.turn_order[sch.turn_index + 1] = secret))]]_vars


\* C14: while a disaster is being resolved (some castle that is not lost has
\* damage > 0) no Place, Move or Swap is accepted from any player.
C14_NoTurnWhileDamageIsOwed ==
    [][(/\ \E s \in DOMAIN sch.castles :
               ~is_lost(sch.castles[s]) /\ sch.castles[s].damage > 0
        /\ slast'.kind \in {"Place", "Move", "Swap"})
           => slast'.result # "Ok"]_vars


\* C15: in GamePlay a turn is one action: once the player in the Action
\* state has performed one successful place, move_outer or swap, a second
\* one by that player, made before the turn has passed, is not accepted
\* (two players in the turn order or more, no disaster in progress).
C15_OneActionPerTurn ==
    [][(/\ glast.op \in {"place", "move_outer", "swap"}
        /\ glast.result = "Ok"
        /\ Len(game.turn.turn_queue) >= 2
        /\ \A s \in DOMAIN game.players : game.players[s].state # "Disaster"
        /\ glast'.op \in {"place", "move_outer", "swap"}
        /\ glast'.secret = glast.secret)
           => glast'.result # "Ok"]_vars


\* C16: in a round without eliminations or disaster resolution the players
\* act in turn_order order, each once: an accepted Place, Move or Swap is the
\* one of turn_order[turn_index] and moves turn_index to the next player;
\* when the last one has acted turn_index is reset to 0, turn_order is
\* rotated left by one and next_round runs once (round grows by one).
C16_TurnsInOrder ==
    [][(/\ slast'.result = "Ok"
        /\ slast'.kind \in {"Place", "Move", "Swap"}
        /\ \A s \in DOMAIN sch.castles : sch.castles[s].damage = 0
        /\ Len(sch'.turn_order) = Len(sch.turn_order))
           => /\ sch.turn_index < Len(sch.turn_order)
              /\ slast'.secret = sch.turn_order[sch.turn_index + 1]
              /\ IF sch.turn_index + 1 < Len(sch.turn_order)
                 THEN /\ sch'.turn_index = sch.turn_index + 1
                      /\ sch'.turn_order = sch.turn_order
                      /\ sch'.round = sch.round
                 ELSE /\ sch'.turn_index = 0
                      /\ sch'.turn_order = Tail(sch.turn_order) \o <<Head(sch.turn_order)>>
                      /\ sch'.round = sch.round + 1]_vars

\* the second player of a two-player round has placed a room: the round
\* wrapped and the first player of the round before is the last one now
C16_Witness ==
    /\ slast.result = "Ok"
    /\ slast.kind = "Place"
    /\ slast.secret = "2"
    /\ sch.turn_order = <<"2", "1">>
    /\ sch.turn_index = 0
    /\ sch.round = 1


\* C17: in every state reached through accepted actions,
\* turn_index < len(turn_order) whenever turn_order is not empty.
C17_TurnIndexInRange ==
    Len(sch.turn_order) > 0 => sch.turn_index < Len(sch.turn_order)

\* the turn player of a two-player game, second in turn_order, has discarded
\* the throne: the other player is alone in turn_order, at index 0
C17_Witness ==
    /\ slast.result = "Ok"
    /\ slast.kind = "Discard"
    /\ slast.secret = "2"
    /\ is_lost(sch.castles["2"])
    /\ sch.turn_order = <<"1">>
    /\ sch.turn_index = 0


C19_RoomsConserved ==
    glast.result # "Panic" =>
        \A room \in LobbyRooms :
            Cardinality({<<s, pos>> \in UNION {{s} \X DOMAIN game.players[s].castle.rooms :
                                                  s \in {t \in DOMAIN game.players :
                                                            game.players[t].state # "Dead"}} :
                            game.players[s].castle.rooms[pos] = room})
              + Cardinality({i \in 1..Len(game.shop) : game.shop[i] = room})
              + Cardinality({i \in 1..Len(game.discard) : game.discard[i] = room})
              + Cardinality({i \in 1..Len(game.deck) : game.deck[i] = RoomCard(room)})
              = 1


\* C20: a disaster drawn from the deck is never lost or duplicated: in every
\* reachable state the resolved, the queued and the undrawn disasters are,
\* each once, the disasters of the game.
C20_DisastersConserved ==
    slast.result # "Panic" =>
        \A disaster \in sch.setting.disasters :
            Cardinality({i \in 1..Len(sch.previous_disasters) : sch.previous_disasters[i] = disaster})
              + Cardinality({i \in 1..Len(sch.queued_disasters) : sch.queued_disasters[i] = disaster})
              + (IF disaster \in sch.possible_disasters THEN 1 ELSE 0)
              = 1


\* C21: with num_safe >= num_shop the first shop deal of a game draws no
\* disaster, whatever the shuffles are: every disaster of the deck is still
\* in the deck after the deal and no player has been struck.
C21_FirstDealIsSafe ==
    [][(/\ NumSafe >= NumShop
        /\ glast.op = "start_game"
        /\ glast'.op = "update_game_states")
           => /\ \A s \in DOMAIN game'.players :
                     game'.players[s].state \notin {"Disaster", "Dead"}
              /\ {i \in 1..Len(game'.deck) : game'.deck[i].card = "Disaster"}
                     = {i \in 1..Len(game.deck) : game.deck[i].card = "Disaster"}]_vars


\* C22: is_over() is true exactly when fewer than two players remain (their
\* castles not lost, seated in turn_order) or the number of resolved
\* disasters equals num_disasters.
C22_IsOverExactly ==
    /\ is_over(sch) <=>
           \/ Cardinality({s \in DOMAIN sch.castles : ~is_lost(sch.castles[s])}) < 2
           \/ Len(sch.previous_disasters) = sch.setting.num_disasters
    /\ {sch.turn_order[i] : i \in 1..Len(sch.turn_order)}
           = {s \in DOMAIN sch.castles : ~is_lost(sch.castles[s])}

\* a two-player game that one player has left by discarding the throne,
\* with disasters still to come: the game is over
C22_Witness ==
    /\ Cardinality(DOMAIN sch.castles) = 2
    /\ Len(sch.turn_order) = 1
    /\ slast.kind = "Discard"
    /\ slast.result = "Ok"
    /\ Len(sch.previous_disasters) < sch.setting.num_disasters
    /\ is_over(sch)


\* C23: is_victorious(secret) is true exactly for the players whose castle
\* is maximal under the lexicographic key (not lost, treasure, number of
\* rooms, total links): players tied on the maximal key are all victorious,
\* some player is victorious whenever the game has a castle, and no lost
\* player is victorious while some castle is not lost.
C23_VictoriousIsMaximal ==
    LET key(s) == <<IF is_lost(sch.castles[s]) THEN 0 ELSE 1,
                    get_treasure(sch.castles[s]),
                    Cardinality(DOMAIN sch.castles[s].rooms),
                    TotalLinks(get_links(sch.castles[s]))>>
        below(k, l) == \E i \in 1..4 : k[i] < l[i] /\ \A j \in 1..(i - 1) : k[j] = l[j]
        maximal(s) == s \in DOMAIN sch.castles
                          /\ \A t \in DOMAIN sch.castles : ~below(key(s), key(t))
    IN /\ \A secret \in SchSecrets : is_victorious(sch, secret) = {maximal(secret)}
       /\ DOMAIN sch.castles # {} =>
              \E secret \in DOMAIN sch.castles : is_victorious(sch, secret) = {TRUE}
       /\ \A secret \in DOMAIN sch.castles :
              (is_lost(sch.castles[secret])
                   /\ \E t \in DOMAIN sch.castles : ~is_lost(sch.castles[t]))
                  => is_victorious(sch, secret) = {FALSE}

\* two castles that are not lost, one with more rooms than the other: its
\* player alone is victorious
C23_Witness ==
    /\ DOMAIN sch.castles = {"1", "2"}
    /\ ~is_lost(sch.castles["1"])
    /\ ~is_lost(sch.castles["2"])
    /\ Cardinality(DOMAIN sch.castles["1"].rooms) < Cardinality(DOMAIN sch.castles["2"].rooms)
    /\ is_victorious(sch, "2") = {TRUE}
    /\ is_victorious(sch, "1") = {FALSE}



C25_DamageOnlyFromDisasters ==
    [][Len(sch'.previous_disasters) = Len(sch.previous_disasters)
           => /\ DOMAIN sch'.castles = DOMAIN sch.castles
              /\ \A s \in DOMAIN sch.castles :
                     sch'.castles[s].damage <= sch.castles[s].damage]_vars

\* a player who is not the turn player has discarded a room, accepted
\* because of the damage owed, and stays seated
C25_Witness ==
    /\ slast.kind = "Discard"
    /\ slast.result = "Ok"
    /\ Len(sch.turn_order) = 2
    /\ sch.turn_order[sch.turn_index + 1] # slast.secret
    /\ ~is_lost(sch.castles[slast.secret])
    /\ sch.castles[slast.secret].damage = 0
    /\ Len(sch.previous_disasters) = 1


\* C26: for every pair of Connection values link(a, b) is Any for (Any, Any),
\* the emblem kind of X for (Any, X) and (X, Any), that kind for two emblems
\* of the same kind whatever their gold, and no link for two emblems of
\* different kinds or when a side is None; link is symmetric.
C26_LinkTable ==
    last.op = "link" =>
        LET a == last.args[1]
            b == last.args[2]
        IN /\ last.value =
                  (IF a.kind = "None" \/ b.kind = "None" THEN "NoLink"
                   ELSE IF a.kind = "Any" THEN (IF b.kind = "Any" THEN "Any" ELSE b.kind)
                   ELSE IF b.kind = "Any" THEN a.kind
                   ELSE IF a.kind = b.kind THEN a.kind
                   ELSE "NoLink")
           /\ link(b, a) = last.value

\* a gold diamond against a plain diamond: a Diamond link
C26_Witness ==
    /\ last.op = "link"
    /\ last.args = <<Diamond(TRUE), Diamond(FALSE)>>
    /\ last.value = "Diamond"


\* C27: rotate_right yields a room whose four sides are a cyclic shift of
\* the original's: the call hands a room back to its caller (so that it can
\* be rotated again, four times to the original, or rotated left to the
\* original).
C27_RotateYieldsRoom ==
    last.op \in {"rotate_right", "rotate_left"} => last.result = "Room"


\* C28: for every disaster with 8-bit base and multiplier and every history
\* length h of a game, diamond_damage(h), cross_damage(h) and moon_damage(h)
\* each return base_c + h * mult_c as a mathematical integer: the 8-bit
\* arithmetic neither wraps nor aborts.
C28_DamageIsExact ==
    LET calculation == IF last.op = "diamond_damage" THEN last.args[1].diamond
                       ELSE IF last.op = "cross_damage" THEN last.args[1].cross
                       ELSE last.args[1].moon
    IN last.op \in {"diamond_damage", "cross_damage", "moon_damage"}
           => /\ last.result = "Ok"
              /\ last.value = calculation.addition + last.args[2] * calculation.multiplier


\* C29: after an accepted Discard the next queued disaster is popped and
\* resolved if and only if every castle that is not lost then has damage 0
\* and queued_disasters is not empty; none is resolved while a castle that
\* is not lost owes damage, and at most one is resolved per Discard.
C29_QueuedDisasterWhenPaid ==
    [][(slast'.kind = "Discard" /\ slast'.result = "Ok")
           => LET s == slast'.secret
                  paid == /\ \A t \in DOMAIN sch.castles \ {s} :
                                 sch.castles[t].damage = 0 \/ is_lost(sch.castles[t])
                          /\ \/ sch.castles[s].damage <= 1
                             \/ is_lost(sch'.castles[s])
              IN IF paid /\ Len(sch.queued_disasters) > 0
                 THEN /\ sch'.queued_disasters =
                             SubSeq(sch.queued_disasters, 1, Len(sch.queued_disasters) - 1)
                      /\ sch'.previous_disasters =
                             Append(sch.previous_disasters,
                                    sch.queued_disasters[Len(sch.queued_disasters)])
                 ELSE /\ sch'.queued_disasters = sch.queued_disasters
                      /\ sch'.previous_disasters = sch.previous_disasters]_vars

\* one round has been dealt, which resolved one disaster and queued
\* another; the last damage has been paid by a Discard and the queued
\* disaster has been resolved
C29_Witness ==
    /\ slast.kind = "Discard"
    /\ slast.result = "Ok"
    /\ sch.round = 1
    /\ Len(sch.turn_order) = Cardinality(DOMAIN sch.castles)
    /\ Len(sch.previous_disasters) = 2
    /\ sch.queued_disasters = <<>>



\* C30: in the shop deal of update_game_states the first second disaster of
\* a round sends the disasters drawn before it back into the deck and stays
\* itself the round's drawn disaster, once per round: after a deal that
\* struck, every disaster the deck held is, once, either in the deck or
\* among the drawn disasters the struck players are given.
C30_MulliganKeepsLatest ==
    [][(/\ glast'.op = "update_game_states"
        /\ glast'.result = "Ok"
        /\ \A s \in DOMAIN game.players : game.players[s].state = "Wait"
        /\ is_new_round(game.turn)
        /\ ~game.dealt_shop)
           => \A s \in DOMAIN game'.players :
                  game'.players[s].state = "Disaster" =>
                      \A disaster \in LobbyDisasters :
                          Cardinality({i \in 1..Len(game'.players[s].disasters) :
                                          game'.players[s].disasters[i] = disaster})
                            + Cardinality({i \in 1..Len(game'.deck) :
                                              game'.deck[i] = DisasterCard(disaster)})
                            = Cardinality({i \in 1..Len(game.deck) :
                                              game.deck[i] = DisasterCard(disaster)})]_vars



\* C31: in next_round a second disaster drawn in the round sends every
\* disaster in hand except the first one drawn back to possible_disasters:
\* the first one drawn stays in hand, to be resolved.
C31_FirstDrawnIsKept ==
    [][(/\ slast.kind = "Loop"
        /\ slast'.kind = "Loop"
        /\ slast'.result = "Ok"
        /\ ~slast.redealt
        /\ slast'.redealt)
           => /\ slast'.disasters = <<slast.disasters[1]>>
              /\ sch'.possible_disasters =
                     sch.possible_disasters]_vars



\* C32: next_round refills the shop: after an accepted action that ends a
\* round the shop holds num_shop rooms, unless no undrawn room is left; the
\* disasters drawn on the way do not leave the shop short.
C32_ShopIsRefilled ==
    [][(/\ slast'.kind \in {"Place", "Move", "Swap"}
        /\ slast'.result = "Ok"
        /\ sch.turn_index + 1 >= Len(sch.turn_order))
           => \/ Len(sch'.shop) = sch'.setting.num_shop
              \/ sch'.possible_rooms = {}]_vars



\* C33: when the lobby holds at least num_disasters disasters, whatever
\* disasters have been locked (each once, no more than num_disasters of
\* them), start_game puts exactly num_disasters disaster cards in the deck,
\* no two of the same name, every locked disaster among them.
C33_DeckDisasters ==
    (/\ last.op = "start_game"
     /\ Len(last.args[1].disasters) >= last.args[1].num_disasters
     /\ Len(last.args[1].locked_disasters) <= last.args[1].num_disasters
     /\ \A i, j \in 1..Len(last.args[1].locked_disasters) :
            i # j => last.args[1].locked_disasters[i] # last.args[1].locked_disasters[j])
        => /\ Len(last.value) = last.args[1].num_disasters
           /\ \A i, j \in 1..Len(last.value) :
                  i # j => last.value[i].disaster.name # last.value[j].disaster.name
           /\ \A i \in 1..Len(last.args[1].locked_disasters) :
                  \E j \in 1..Len(last.value) :
                      last.value[j] = DisasterCard(last.args[1].locked_disasters[i])



\* C34: after any sequence of successful place, remove, move_outer and swap
\* the connections graph has an edge between two positions exactly when
\* both hold a room, they are orthogonal neighbours and the two sides that
\* face each other are both not walls.
C34_EdgesMirrorRooms ==
    last.result = "Ok" => castle.connections.edges = FacingEdges(castle.rooms)


\* C35: a castle operation that fails inside a game-level call makes the
\* call return the wrapped castle error; in the disaster phase a remove of a
\* position that cannot be removed does not return Ok: a remove that returns
\* Ok has queued the position or paid the damage.
C35_CastleErrorsWrapped ==
    [][(/\ glast'.op = "remove"
        /\ glast'.result = "Ok")
           => game'.players[glast'.secret] # game.players[glast'.secret]]_vars


\* C36: place(room, pos) succeeds only if pos holds no room and every
\* orthogonal neighbour that holds a room shows the new room a side that is
\* a wall when the room's side is a wall and not a wall when it is not: one
\* neighbour with a wall against a side that is not makes it InvalidPlace.
C36_PlaceNeedsCompatibleSides ==
    last.op = "place" =>
        LET room == last.args[1]
            pos == last.args[2]
            fits(p, theirs, ours) ==
                p \in DOMAIN before.rooms =>
                    ((before.rooms[p][theirs].kind = "None") <=> (ours.kind = "None"))
            allowed ==
                /\ pos \notin DOMAIN before.rooms
                /\ fits(Up(pos), "down", room.up)
                /\ fits(Right(pos), "left", room.right)
                /\ fits(Down(pos), "up", room.down)
                /\ fits(Left(pos), "right", room.left)
        IN /\ last.result = "Ok" => allowed
           /\ ~allowed => last.result = "InvalidPlace"

\* a room is refused at a free cell beside the throne: its wall faces a side
\* of the throne that is not a wall
C36_Witness ==
    /\ last.op = "place"
    /\ last.result = "InvalidPlace"
    /\ last.args[2] = <<1, 0>>
    /\ last.args[2] \notin DOMAIN before.rooms
    /\ last.args[1].left.kind = "None"
    /\ before.rooms[<<0, 0>>].right.kind # "None"



C38_OneActor ==
    /\ Cardinality({s \in DOMAIN game.players : game.players[s].state = "Action"}) <= 1
    /\ (\E s \in DOMAIN game.players : game.players[s].state = "Action")
           => \A s \in DOMAIN game.players : game.players[s].state # "Disaster"

\* a disaster has been drawn and paid for, and a player has the turn while
\* the other waits
C38_Witness ==
    /\ \E s \in DOMAIN game.players : game.players[s].state = "Action"
    /\ \E s \in DOMAIN game.players : game.players[s].state = "Wait"
    /\ Cardinality({i \in 1..Len(game.deck) : game.deck[i].card = "Disaster"}) < NumDisasters
    /\ glast.op = "update_game_states"
    /\ glast.result = "Ok"



\* C39: is_over is stable: an accepted action made on a game that is over
\* leaves a game that is over, turn_order has not grown and
\* previous_disasters holds no more than num_disasters disasters.
C39_OverStaysOver ==
    [][(slast'.result = "Ok" /\ slast'.kind \in {"Place", "Move", "Swap", "Discard"})
           => /\ is_over(sch) => is_over(sch')
              /\ Len(sch'.turn_order) <= Len(sch.turn_order)
              /\ Len(sch'.previous_disasters) <= sch'.setting.num_disasters]_vars

\* a two-player game one player has left by discarding the throne before
\* any disaster: it is over, and the player who is left has since placed a
\* room
C39_Witness ==
    /\ Cardinality(DOMAIN sch.castles) = 2
    /\ Len(sch.turn_order) = 1
    /\ sch.previous_disasters = <<>>
    /\ slast.kind = "Place"
    /\ slast.result = "Ok"
    /\ is_over(sch)



\* C40: in every reachable SchrodingerGameState turn_order holds the
\* players whose castles are not lost, each of them once, and no one else.
C40_TurnOrderIsStanding ==
    slast.result # "Panic" =>
        \A s \in DOMAIN sch.castles :
            Cardinality({i \in 1..Len(sch.turn_order) : sch.turn_order[i] = s})
                = IF is_lost(sch.castles[s]) THEN 0 ELSE 1

\* a player has discarded the throne: the castle is lost and its player has
\* left turn_order, where the other player, whose castle stands, is alone
C40_Witness ==
    \E s \in DOMAIN sch.castles, t \in DOMAIN sch.castles :
        /\ s # t
        /\ is_lost(sch.castles[s])
        /\ ~is_lost(sch.castles[t])
        /\ sch.turn_order = <<t>>
        /\ slast.secret = s
        /\ slast.kind = "Discard"
        /\ slast.result = "Ok"
====
